---- MODULE Spec2Model ----
(***************************************************************************)
(* Progressive decode-and-playback engine of the browser music player.     *)
(*                                                                         *)
(* Spec      : src/music-player-browser-test/newindex.js, the heartbeat    *)
(*             players (BasePlayer, StreamPlayer, GenericPlayer,           *)
(*             AiffManualPlayer) driven by the track buttons, the stop     *)
(*             button, the network stream, the audio clock and the decoder.*)
(*                                                                         *)
(* SpecDiff  : src/unnamed/part_000, the differential player             *)
(*             (playChunkedAudio, scheduleNewSegment, resetPlayer), which  *)
(*             decodes everything received after each chunk and schedules  *)
(*             the frames it has not scheduled yet.                        *)
(*                                                                         *)
(* Time is counted in units of 50 ms (0.2 s = 4, 0.1 s = 2, 10 s = 200);   *)
(* bytes are counted as bytes.                                             *)
(***************************************************************************)
EXTENDS Integers, Sequences, FiniteSets, TLC

VARIABLES
    scope,          \* which inputs are explored (fixed by Init):
                    \* "playback", "download", "switch", ...
    variant,        \* which of the two scripts of newindex.js is loaded (1 or 2)
    players,        \* every player object created so far, by creation order
    sources,        \* every AudioBufferSourceNode created so far
    currentPlayer,  \* the global currentPlayer (Null or an index of players)
    statusTxt,      \* #status-text
    bytesTxt,       \* #bytes-loaded
    last,           \* the handler that ran last, its arguments and what it
                    \* handed to the progress callback or to the visualizer
    \* ---- the differential player (part_000) ----
    audioCtx,       \* the global audioCtx (Null or an index of contexts)
    contexts,       \* every AudioContext created so far: state and currentTime
    nextStartTime,  \* the global nextStartTime
    isPlaying,      \* the global isPlaying
    abortController,\* the global abortController (Null or the index of the
                    \* playChunkedAudio call that created it)
    sourceNodes,    \* the global array sourceNodes (indexes of nodes)
    nodes,          \* every AudioBufferSourceNode scheduleNewSegment created
    tracks,         \* every call of playChunkedAudio: its position and locals
    ui,             \* statusText, progressBar, bytesLoadedEle, totalSizeEle,
                    \* stopBtn.disabled
    \* ---- the byte-level functions (patchers, AiffParser) ----
    input,          \* the arguments of the call under evaluation
    output          \* what the call returned or wrote (NoCall before the call)

engineVars == <<variant, players, sources, currentPlayer, statusTxt, bytesTxt>>
diffVars == <<audioCtx, contexts, nextStartTime, isPlaying, abortController,
              sourceNodes, nodes, tracks, ui>>
byteVars == <<input, output>>
vars == <<scope, last, engineVars, diffVars, byteVars>>

(* ------------------------------ bounds -------------------------------- *)
\* "playback": one track, a one-shape stream, every playback input (seek
\*             times, decoded durations, clock).
\* "download": one track, every stream input (file and chunk lengths, declared
\*             length, track types), one decoded duration, one clock step.
\* "switch"  : up to MaxPlayers tracks, each superseding the previous one,
\*             over a one-chunk stream.
MaxPlayers == 2
MaxSources == 2
MaxClock == 3
MaxDur == 7
MaxFileUnits == 5

(* ------------------------- program constants -------------------------- *)
BUFFER_THRESHOLD == 1048576
INITIAL_THRESHOLD == 262144
TOLERANCE == 4
SEEK_MARGIN == 2
TEN_SECONDS == 200

Null == 0

Max(a, b) == IF a >= b THEN a ELSE b
Min(a, b) == IF a <= b THEN a ELSE b

\* the track types of PLAYLIST; "FLAC" takes every branch "MP3" takes
PLAYLIST ==
    IF scope \in {"download", "convergence"} THEN {"AIFF", "WAV", "MP3"}
    ELSE {"AIFF", "MP3"}

(* ----------------------------- the heap ------------------------------- *)
(* Operators on H = [players, sources] model the methods; the actions     *)
(* below apply them to the variables.                                     *)

\* room: FALSE once a node was asked for when every slot of sources was taken;
\* the actions do not take such a step (MaxSources bounds the nodes alive)
Heap == [players |-> players, sources |-> sources, room |-> TRUE]

\* BasePlayer.constructor; an absent field (undefined) is modelled as Null.
NewPlayer(kind, type) ==
    [ kind |-> kind, type |-> type,
      INITIAL_THRESHOLD |->
          IF variant = 1
          THEN (IF type = "WAV" \/ type = "AIFF" THEN 1048576 ELSE 262144)
          ELSE (IF type = "WAV" THEN 1048576 ELSE 262144),
      audioCtx |-> Null, ctxState |-> "none", now |-> 0,
      activeSource |-> Null,
      abortController |-> Null, signalAborted |-> FALSE,
      fullAudioBuffer |-> Null,
      isStopped |-> TRUE, isDownloading |-> FALSE,
      startTime |-> 0, playedOffset |-> 0,
      totalFileBytes |-> 0, estimatedDuration |-> 0,
      monitorId |-> Null, monitorOn |-> FALSE,
      headerParsed |-> FALSE,
      pc |-> "new", fileLen |-> 0,
      totalBytes |-> 0, lastProcessedBytes |-> 0, isFirstProcessing |-> TRUE ]

\* PlayerFactory.getPlayer
PlayerKind(type) ==
    IF variant = 1 THEN "StreamPlayer"
    ELSE IF type = "AIFF" THEN "AiffManualPlayer" ELSE "GenericPlayer"

\* a slot of sources that holds no node (never used, or garbage: neither
\* playing nor with an event to dispatch, so nothing can reach it)
FreeSource ==
    [ owner |-> 0, buffer |-> 0, offset |-> 0, startedAt |-> 0,
      state |-> "free", onended |-> FALSE, eventPending |-> FALSE ]

FreeIds(srcs) == {s \in 1..MaxSources : srcs[s].state = "free"}
NewId(srcs) ==
    IF FreeIds(srcs) = {} THEN 0
    ELSE CHOOSE s \in FreeIds(srcs) : \A u \in FreeIds(srcs) : s <= u

\* AudioBufferSourceNode.stop(): a playing node stops and its ended event is
\* queued; on a node that has already ended or stopped nothing happens.
SourceStop(srcs, s) ==
    IF srcs[s].state = "playing"
    THEN [srcs EXCEPT ![s].state = "stopped", ![s].eventPending = TRUE]
    ELSE srcs

\* the previous source is stopped with its handler still attached
DetachAndStop_KeepsHandler(srcs, s) == SourceStop(srcs, s)

\* this.activeSource.onended = null; try { this.activeSource.stop(); } catch(e){}
\* Nothing reads the buffer or the timing of a node that was detached and
\* stopped: only its owner and its queued ended event are kept.
DetachAndStop(srcs, s) ==
    LET t == SourceStop([srcs EXCEPT ![s].onended = FALSE], s) IN
    [t EXCEPT ![s].buffer = 0, ![s].offset = 0, ![s].startedAt = 0]

\* playSourceFrom that leaves the previous source running
playSourceFrom_KeepsPrevious(H, p, time) ==
    LET pl == H.players[p] IN
    IF pl.isStopped \/ pl.fullAudioBuffer = Null \/ pl.audioCtx = Null THEN H
    ELSE
      LET over == time >= pl.fullAudioBuffer
          src == [ owner |-> p, buffer |-> pl.fullAudioBuffer, offset |-> time,
                   startedAt |-> pl.now,
                   state |-> IF over THEN "ended" ELSE "playing",
                   onended |-> TRUE, eventPending |-> over ]
          id == NewId(H.sources)
      IN [ players |-> [H.players EXCEPT ![p] =
                          [@ EXCEPT !.activeSource = id,
                                    !.startTime = pl.now,
                                    !.playedOffset = time]],
           sources |-> IF id = 0 THEN H.sources ELSE [H.sources EXCEPT ![id] = src],
           room |-> H.room /\ id # 0 ]

\* BasePlayer.playSourceFrom(time)
playSourceFrom(H, p, time) ==
    LET pl == H.players[p] IN
    IF pl.isStopped \/ pl.fullAudioBuffer = Null \/ pl.audioCtx = Null THEN H
    ELSE
      LET srcs1 == IF pl.activeSource # Null
                   THEN DetachAndStop(H.sources, pl.activeSource)
                   ELSE H.sources
          over == time >= pl.fullAudioBuffer
          src == [ owner |-> p, buffer |-> pl.fullAudioBuffer, offset |-> time,
                   startedAt |-> pl.now,
                   state |-> IF over THEN "ended" ELSE "playing",
                   onended |-> TRUE, eventPending |-> over ]
          id == NewId(srcs1)
      IN [ players |-> [H.players EXCEPT ![p] =
                          [@ EXCEPT !.activeSource = id,
                                    !.startTime = pl.now,
                                    !.playedOffset = time]],
           sources |-> IF id = 0 THEN srcs1 ELSE [srcs1 EXCEPT ![id] = src],
           room |-> H.room /\ id # 0 ]

\* onended that forgets the offset the source was started at
onended_ElapsedOnly(H, p) ==
    LET pl == H.players[p] IN
    IF pl.isStopped THEN H
    ELSE [H EXCEPT !.players[p] =
            [@ EXCEPT !.playedOffset = pl.now - pl.startTime,
                      !.activeSource = Null]]

\* the onended closure installed by playSourceFrom
onended(H, p) ==
    LET pl == H.players[p] IN
    IF pl.isStopped THEN H
    ELSE [H EXCEPT !.players[p] =
            [@ EXCEPT !.playedOffset = pl.playedOffset + (pl.now - pl.startTime),
                      !.activeSource = Null]]

\* seek without the upper clamp
seek_NoUpperClamp(H, p, time) ==
    LET pl == H.players[p] IN
    IF pl.isStopped \/ pl.fullAudioBuffer = Null THEN H
    ELSE playSourceFrom(H, p, Max(0, time))

\* seek that records the requested time before it tests its guard
seek_WritesFirst(H, p, time) ==
    LET pl == H.players[p]
        H1 == [H EXCEPT !.players[p].playedOffset = Max(0, time)]
    IN IF pl.isStopped \/ pl.fullAudioBuffer = Null THEN H1
       ELSE playSourceFrom(H, p, Max(0, Min(time, pl.fullAudioBuffer - SEEK_MARGIN)))

\* BasePlayer.seek(time)
seek(H, p, time) ==
    LET pl == H.players[p] IN
    IF pl.isStopped \/ pl.fullAudioBuffer = Null THEN H
    ELSE playSourceFrom(H, p, Max(0, Min(time, pl.fullAudioBuffer - SEEK_MARGIN)))

\* stop that leaves the active source attached and running
stop_KeepsSource(H, p) ==
    LET pl == H.players[p] IN
    [H EXCEPT !.players[p] =
          [@ EXCEPT !.isStopped = TRUE,
                    !.isDownloading = FALSE,
                    !.monitorOn = FALSE,
                    !.signalAborted = IF pl.abortController # Null THEN TRUE ELSE @,
                    !.abortController = Null,
                    !.ctxState = IF pl.audioCtx # Null THEN "closed" ELSE @,
                    !.audioCtx = Null,
                    !.fullAudioBuffer = Null,
                    !.playedOffset = 0,
                    !.estimatedDuration = IF variant = 1 THEN 0 ELSE @]]

\* BasePlayer.stop()
stop(H, p) ==
    LET pl == H.players[p] IN
    [ players |-> [H.players EXCEPT ![p] =
          [@ EXCEPT !.isStopped = TRUE,
                    !.isDownloading = FALSE,
                    !.monitorOn = FALSE,
                    !.signalAborted = IF pl.abortController # Null THEN TRUE ELSE @,
                    !.abortController = Null,
                    !.activeSource = Null,
                    !.ctxState = IF pl.audioCtx # Null THEN "closed" ELSE @,
                    !.audioCtx = Null,
                    !.fullAudioBuffer = Null,
                    !.playedOffset = 0,
                    !.estimatedDuration = IF variant = 1 THEN 0 ELSE @]],
      sources |-> IF pl.activeSource # Null
                  THEN DetachAndStop(H.sources, pl.activeSource)
                  ELSE H.sources,
      room |-> H.room ]

\* BasePlayer.init(visualizer): the context is created once, the monitor started
init(H, p) ==
    LET pl == H.players[p] IN
    [H EXCEPT !.players[p] =
        [@ EXCEPT !.audioCtx = IF pl.audioCtx = Null THEN p ELSE @,
                  !.ctxState = IF pl.audioCtx = Null THEN "open" ELSE @,
                  !.now = IF pl.audioCtx = Null THEN 0 ELSE @,
                  !.monitorId = p,
                  !.monitorOn = TRUE]]

\* a monitor that never revives playback
monitorTick_Never(H, p) == H

\* the monitor restarting from the beginning of the buffer
monitorTick_FromStart(H, p) ==
    LET pl == H.players[p] IN
    IF pl.isStopped THEN H
    ELSE IF pl.fullAudioBuffer # Null /\ pl.activeSource = Null
            /\ pl.playedOffset < pl.fullAudioBuffer - TOLERANCE
         THEN playSourceFrom(H, p, 0)
         ELSE H

\* the monitor without its end-of-track tolerance
monitorTick_NoTolerance(H, p) ==
    LET pl == H.players[p] IN
    IF pl.isStopped THEN H
    ELSE IF pl.fullAudioBuffer # Null /\ pl.activeSource = Null
            /\ pl.playedOffset < pl.fullAudioBuffer
         THEN playSourceFrom(H, p, pl.playedOffset)
         ELSE H

\* the setInterval callback of BasePlayer.startMonitor, playback part
monitorTick(H, p) ==
    LET pl == H.players[p] IN
    IF pl.isStopped THEN H
    ELSE IF pl.fullAudioBuffer # Null /\ pl.activeSource = Null
            /\ pl.playedOffset < pl.fullAudioBuffer - TOLERANCE
         THEN playSourceFrom(H, p, pl.playedOffset)
         ELSE H

\* the setInterval callback of BasePlayer.startMonitor, "Sync Visualizer" part:
\* the (cur, total) handed to visualizer.updateTime, or NoSync when it is not called
NoSync == [synced |-> FALSE, cur |-> 0, total |-> 0]

monitorSync(H, p) ==
    LET pl == H.players[p]
        raw == pl.playedOffset + (pl.now - pl.startTime)
        cur == IF pl.fullAudioBuffer # Null /\ raw > pl.fullAudioBuffer
               THEN pl.fullAudioBuffer ELSE raw
        bufDur == IF pl.fullAudioBuffer # Null THEN pl.fullAudioBuffer ELSE 0
        total == IF variant = 1
                 THEN (IF pl.isDownloading THEN pl.estimatedDuration ELSE bufDur)
                 ELSE (IF pl.isDownloading /\ pl.estimatedDuration # 0
                       THEN pl.estimatedDuration ELSE bufDur)
    IN IF pl.isStopped THEN NoSync
       ELSE IF pl.activeSource # Null /\ pl.audioCtx # Null
            THEN [synced |-> TRUE, cur |-> cur, total |-> total]
            ELSE NoSync

\* stopAll that forgets the player
stopAll_Forgets(H) == H

\* stopAll(), the part that touches players
stopAll(H) ==
    IF currentPlayer # Null THEN stop(H, currentPlayer) ELSE H

\* StreamPlayer.process / GenericPlayer.process after the await: the decoder
\* resolved with a buffer of the given duration for the first `size` bytes
processResolved(pl, duration, size) ==
    [pl EXCEPT !.fullAudioBuffer = duration,
               !.estimatedDuration =
                   IF pl.totalFileBytes > 0 /\ size > 0
                   THEN (duration * pl.totalFileBytes) \div size
                   ELSE IF pl.kind = "StreamPlayer" THEN duration ELSE @]

\* AiffManualPlayer.process, which awaits nothing. The bytes are not part of
\* this specification: `out` is what they make of the call ("retry": the
\* header is not parseable yet, "empty": no whole frame, "ok": a buffer of
\* duration out.d, "throw": an exception leaves process, which has no try
\* block: pcmData[0].length when the header declares 0 channels,
\* createBuffer when it declares a sample rate of 0).
aiffProcess(pl, out) ==
    IF pl.isStopped THEN pl
    ELSE IF ~pl.headerParsed /\ out.kind = "retry" THEN pl
    ELSE IF out.kind = "ok"
         THEN [pl EXCEPT !.headerParsed = TRUE,
                         !.fullAudioBuffer = out.d,
                         !.estimatedDuration = pl.totalFileBytes \div 8820]
         ELSE [pl EXCEPT !.headerParsed = TRUE]

\* (bytes/1024/1024).toFixed(2) + " MB": hundredths of a MiB, rounded to nearest
MBLabel(bytes) ==
    [kind |-> "MB", v |-> (bytes * 100 + 524288) \div 1048576]

\* the first argument of onProgress, a percentage kept as the fraction
\* <<numerator, denominator>>: (totalBytes/this.totalFileBytes)*100 after a
\* chunk (denominator 0: Infinity, or NaN), the literal 100 at completion
Percent_Fraction(bytes, total) == <<bytes, total>>

Percent(bytes, total) == <<bytes * 100, total>>

Hundred == <<100, 1>>

\* decoded.duration * (this.totalFileBytes / size)
Estimate(duration, total, size) == (duration * total) \div size

Evt(op, p, arg) ==
    [op |-> op, p |-> p, arg |-> arg, progress |-> FALSE, pct |-> <<0, 1>>,
     sync |-> NoSync]
EvtProgress(op, p, pct) ==
    [op |-> op, p |-> p, arg |-> 0, progress |-> TRUE, pct |-> pct,
     sync |-> NoSync]

PlayerIds == 1..Len(players)
SourceIds == 1..MaxSources

(* ------------------------------ inputs -------------------------------- *)

\* the stream: file lengths and chunk lengths, multiples of 256 KiB
Unit == 256 * 1024
FileLens ==
    CASE scope \in {"playback", "liveness"} -> {MaxFileUnits * Unit}
      [] scope = "download" -> {Unit, MaxFileUnits * Unit}
      [] scope = "convergence" -> {4 * Unit, MaxFileUnits * Unit}
      [] OTHER -> {Unit}
ChunkLens ==
    CASE scope \in {"playback", "liveness"} -> {4 * Unit}
      [] scope \in {"download", "convergence"} -> {Unit, 4 * Unit}
      [] OTHER -> {Unit}
Durations ==
    CASE scope \in {"playback", "liveness"} -> {1, MaxDur - 2, MaxDur}
      [] scope = "convergence" -> 1..(MaxDur + 1)
      [] OTHER -> {MaxDur}
Declared(len) == IF scope = "download" THEN {0, len} ELSE {len}
PlayersBound == IF scope = "switch" THEN MaxPlayers ELSE 1
ClockBound ==
    CASE scope = "playback" -> MaxClock
      [] scope = "liveness" -> MaxClock - 1
      [] OTHER -> 1
AiffOutcomes ==
    {[kind |-> k, d |-> 0] : k \in {"retry", "empty", "throw"}}
        \cup {[kind |-> "ok", d |-> d] : d \in Durations}

\* Scope "convergence": the URL serves a valid file, described by `input`
\* (trailing: a chunk follows the sample-data chunk), and the decoders are
\* functions of the bytes they are given. Reference is the duration of the
\* audio of the complete, unmodified file; a prefix of `size` bytes holds a
\* proportional part of it.
Reference == MaxDur
PrefixDuration(pl, size) == Max(1, (Reference * size) \div pl.fileLen)

\* process(chunks, size, isFinal): the patchers run on the copy unless isFinal
Patched(pl) ==
    /\ pl.pc = "decoding"
    /\ \/ pl.type = "WAV"
       \/ pl.type = "AIFF" /\ pl.kind = "StreamPlayer"

\* decodeAudioData on the first pl.totalBytes bytes. On the complete bytes
\* after patch(), the sample-data chunk is declared to run to the end of the
\* file (size field = L - (o + 8)): a trailing chunk is then decoded as
\* samples by a decoder that honours the size field, as the WAV decoders do;
\* an AIFF decoder may instead stop at numSampleFrames of COMM.
decodeAudioData(pl) ==
    IF pl.totalBytes < pl.fileLen THEN {PrefixDuration(pl, pl.totalBytes)}
    ELSE IF Patched(pl) /\ input.trailing
         THEN (IF pl.type = "WAV" THEN {Reference + 1}
                                  ELSE {Reference, Reference + 1})
         ELSE {Reference}

ValidDecode(pl, d) == scope = "convergence" => d \in decodeAudioData(pl)

\* a valid file is decodable as a whole; a prefix of it may not be
ValidReject(pl) == scope = "convergence" => pl.totalBytes < pl.fileLen

\* AiffManualPlayer.process on the first `size` bytes of a valid file: the
\* samples between dataOffset and min(size, dataOffset + dataSize)
ValidOutcome(pl, size, out) ==
    scope = "convergence" =>
        IF size = pl.fileLen THEN out = [kind |-> "ok", d |-> Reference]
        ELSE \/ out.kind \in {"retry", "empty"}
             \/ out = [kind |-> "ok", d |-> PrefixDuration(pl, size)]

(* ------------------------------ actions ------------------------------- *)

\* the page after the script of newindex.js has run
EngineIdle ==
    /\ players = <<>>
    /\ sources = [s \in 1..MaxSources |-> FreeSource]
    /\ currentPlayer = Null
    /\ statusTxt = "Ready"
    /\ bytesTxt = [kind |-> "MB", v |-> 0]
    /\ last = Evt("load", 0, 0)

\* the page after the script of part_000 has run
DiffIdle ==
    /\ audioCtx = Null
    /\ contexts = <<>>
    /\ nextStartTime = 0
    /\ isPlaying = FALSE
    /\ abortController = Null
    /\ sourceNodes = <<>>
    /\ nodes = <<>>
    /\ tracks = <<>>
    /\ ui = [statusText |-> "Ready", progressBar |-> <<0, 1>>,
             bytesLoaded |-> 0, totalSize |-> 0, stopDisabled |-> TRUE]

\* no byte-level call is under evaluation
NoCall == [fn |-> "none"]
ByteIdle ==
    /\ input = NoCall
    /\ output = NoCall

InitScope(sc) ==
    /\ scope = sc
    /\ variant \in {1, 2}
    /\ EngineIdle
    /\ DiffIdle
    /\ ByteIdle

\* stopBtn.onclick = stopAll
ClickStop ==
    /\ LET H == stopAll(Heap) IN
         /\ players' = H.players
         /\ sources' = H.sources
    /\ currentPlayer' = Null
    /\ statusTxt' = "Stopped"
    /\ bytesTxt' = [kind |-> "MB", v |-> 0]
    /\ last' = Evt("stopAll", currentPlayer, 0)
    /\ UNCHANGED <<byteVars, diffVars, scope, variant>>

\* btn.onclick of a track: stopAll(), a new player, play() up to its first await
ClickTrack(type) ==
    /\ Len(players) < PlayersBound
    /\ LET H0 == stopAll(Heap)
           np == Len(players) + 1
           H1 == [H0 EXCEPT !.players = Append(@, NewPlayer(PlayerKind(type), type))]
           H2 == [H1 EXCEPT !.players[np] =
                     [@ EXCEPT !.isStopped = FALSE, !.isDownloading = TRUE]]
           H3 == init(H2, np)
           H4 == [H3 EXCEPT !.players[np] =
                     [@ EXCEPT !.abortController = np, !.pc = "fetching"]]
       IN /\ players' = H4.players
          /\ sources' = H4.sources
          /\ currentPlayer' = np
    /\ statusTxt' = "Stopped"
    /\ bytesTxt' = [kind |-> "MB", v |-> 0]
    /\ last' = Evt("play", Len(players) + 1, 0)
    /\ UNCHANGED <<byteVars, diffVars, scope, variant>>

\* play() returns or its catch block ends it: its local variables (chunks,
\* totalBytes, lastProcessedBytes, isFirstProcessing) and the reader go away
Return(pl, how) ==
    [pl EXCEPT !.pc = how, !.fileLen = 0, !.totalBytes = 0,
               !.lastProcessedBytes = 0, !.isFirstProcessing = TRUE]

\* fetch() resolves: the response headers are in
FetchResolve(p, len, declared) ==
    /\ players[p].pc = "fetching"
    /\ ~players[p].signalAborted
    /\ players' = [players EXCEPT ![p] =
          [@ EXCEPT !.totalFileBytes = declared, !.fileLen = len, !.pc = "reading"]]
    /\ last' = Evt("fetched", p, 0)
    /\ UNCHANGED <<byteVars, diffVars, scope, variant, sources, currentPlayer, statusTxt, bytesTxt>>

\* fetch() or reader.read() rejects with AbortError: catch, nothing reported
TransferAborted(p) ==
    /\ players[p].pc \in {"fetching", "reading"}
    /\ players[p].signalAborted
    /\ players' = [players EXCEPT ![p] = Return(@, "aborted")]
    /\ last' = Evt("aborted", p, 0)
    /\ UNCHANGED <<byteVars, diffVars, scope, variant, sources, currentPlayer, statusTxt, bytesTxt>>

\* fetch() or reader.read() rejects with another error: catch, console.error
TransferFailed(p) ==
    /\ players[p].pc \in {"fetching", "reading"}
    /\ ~players[p].signalAborted
    /\ players' = [players EXCEPT ![p] = Return(@, "failed")]
    /\ last' = Evt("failed", p, 0)
    /\ UNCHANGED <<byteVars, diffVars, scope, variant, sources, currentPlayer, statusTxt, bytesTxt>>

\* a cadence test that uses the steady-state threshold from the start
Threshold_Steady(pl) == BUFFER_THRESHOLD

\* the threshold of the cadence test after a chunk
Threshold(pl) ==
    IF pl.kind = "AiffManualPlayer" THEN BUFFER_THRESHOLD
    ELSE IF pl.isFirstProcessing THEN pl.INITIAL_THRESHOLD ELSE BUFFER_THRESHOLD

\* reader.read() resolves with a chunk of n bytes: one pass of the loop body,
\* up to the next await (the decoder, or the next read)
ReadChunk(p, n, out) ==
    LET pl == players[p]
        total == pl.totalBytes + n
        pl1 == [pl EXCEPT !.totalBytes = total]
        trigger == total - pl.lastProcessedBytes >= Threshold(pl)
    IN
    /\ pl.pc = "reading"
    /\ n > 0
    /\ IF pl.isStopped
       THEN /\ players' = [players EXCEPT ![p] = Return(@, "returned")]
            /\ out.kind = "empty"
            /\ last' = Evt("chunk", p, 0)
            /\ UNCHANGED <<statusTxt, bytesTxt>>
       ELSE /\ ~pl.signalAborted
            /\ statusTxt' = IF pl.kind = "AiffManualPlayer" THEN "Parsing AIFF..."
                                                             ELSE "Buffering"
            /\ bytesTxt' = MBLabel(total)
            /\ last' = EvtProgress("chunk", p, Percent(total, pl.totalFileBytes))
            /\ IF ~trigger
               THEN /\ out.kind = "empty"
                    /\ players' = [players EXCEPT ![p] = pl1]
               ELSE IF pl.kind = "AiffManualPlayer"
               THEN /\ out.kind = "retry" => ~pl.headerParsed
                    /\ ValidOutcome(pl, total, out)
                    /\ players' = [players EXCEPT ![p] =
                          IF out.kind = "throw"
                          THEN Return(aiffProcess(pl1, out), "failed")
                          ELSE [aiffProcess(pl1, out) EXCEPT !.lastProcessedBytes = total]]
               ELSE /\ out.kind = "empty"
                    /\ players' = [players EXCEPT ![p] = [pl1 EXCEPT !.pc = "decoding"]]
    /\ UNCHANGED <<byteVars, diffVars, scope, variant, sources, currentPlayer>>

\* the final decode runs for every stream that ends
FinalDecodeDue_Always(pl) == TRUE

\* if (totalBytes > lastProcessedBytes) await this.process(chunks, totalBytes, true)
FinalDecodeDue(pl) == pl.totalBytes > pl.lastProcessedBytes

\* reader.read() resolves with done
ReadDone(p, out) ==
    LET pl == players[p]
        pl1 == [pl EXCEPT !.isDownloading = FALSE]
    IN
    /\ pl.pc = "reading"
    /\ pl.totalBytes = pl.fileLen
    /\ IF pl.isStopped
       THEN /\ players' = [players EXCEPT ![p] = Return(@, "returned")]
            /\ out.kind = "empty"
            /\ last' = Evt("done", p, 0)
            /\ UNCHANGED <<statusTxt, bytesTxt>>
       ELSE /\ ~pl.signalAborted
            /\ IF pl.kind = "AiffManualPlayer"
               THEN /\ out.kind = "retry" => ~pl.headerParsed
                    /\ ValidOutcome(pl, pl.totalBytes, out)
                    /\ IF out.kind = "throw"
                       THEN /\ players' = [players EXCEPT ![p] =
                                  Return(aiffProcess(pl1, out), "failed")]
                            /\ last' = Evt("done", p, 0)
                            /\ UNCHANGED <<statusTxt, bytesTxt>>
                       ELSE /\ players' = [players EXCEPT ![p] =
                                  Return(aiffProcess(pl1, out), "finished")]
                            /\ statusTxt' = "Playing"
                            /\ bytesTxt' = [kind |-> "Done", v |-> 0]
                            /\ last' = EvtProgress("done", p, Hundred)
               ELSE /\ out.kind = "empty"
                    /\ IF FinalDecodeDue(pl)
                       THEN /\ players' = [players EXCEPT ![p] =
                                  [pl1 EXCEPT !.pc = "finalDecoding"]]
                            /\ last' = Evt("done", p, 0)
                            /\ UNCHANGED <<statusTxt, bytesTxt>>
                       ELSE /\ players' = [players EXCEPT ![p] =
                                  Return(pl1, "finished")]
                            /\ statusTxt' = "Playing"
                            /\ bytesTxt' = [kind |-> "Done", v |-> 0]
                            /\ last' = EvtProgress("done", p, Hundred)
    /\ UNCHANGED <<byteVars, diffVars, scope, variant, sources, currentPlayer>>

\* the continuation of play() after `await this.process(...)` returned
AfterProcess(p, pl) ==
    IF pl.pc = "decoding"
    THEN /\ players' = [players EXCEPT ![p] =
               [pl EXCEPT !.lastProcessedBytes = pl.totalBytes,
                          !.isFirstProcessing = FALSE,
                          !.pc = "reading"]]
         /\ UNCHANGED <<statusTxt, bytesTxt>>
    ELSE /\ players' = [players EXCEPT ![p] = Return(pl, "finished")]
         /\ statusTxt' = "Playing"
         /\ bytesTxt' = [kind |-> "Done", v |-> 0]

\* decodeAudioData resolves with a buffer of duration d
DecodeResolve(p, d) ==
    /\ players[p].pc \in {"decoding", "finalDecoding"}
    /\ ValidDecode(players[p], d)
    /\ AfterProcess(p, processResolved(players[p], d, players[p].totalBytes))
    /\ last' = IF players[p].pc = "decoding" THEN Evt("decoded", p, 0)
                ELSE EvtProgress("decoded", p, Hundred)
    /\ UNCHANGED <<byteVars, diffVars, scope, variant, sources, currentPlayer>>

\* decodeAudioData rejects: caught inside process
DecodeReject(p) ==
    /\ players[p].pc \in {"decoding", "finalDecoding"}
    /\ ValidReject(players[p])
    /\ AfterProcess(p, players[p])
    /\ last' = IF players[p].pc = "decoding" THEN Evt("undecoded", p, 0)
                ELSE EvtProgress("undecoded", p, Hundred)
    /\ UNCHANGED <<byteVars, diffVars, scope, variant, sources, currentPlayer>>

\* one firing of the 100 ms interval of startMonitor
Heartbeat(p) ==
    /\ players[p].monitorOn
    /\ LET H == monitorTick(Heap, p) IN
         /\ H.room
         /\ players' = H.players
         /\ sources' = H.sources
    /\ last' = [Evt("tick", p, IF monitorTick(Heap, p) = Heap THEN 0 ELSE 1)
                   EXCEPT !.sync = monitorSync(Heap, p)]
    /\ UNCHANGED <<byteVars, diffVars, scope, variant, currentPlayer, statusTxt, bytesTxt>>

\* seek(time) on a player, from the visualizer's click or from a caller
SeekTimes(p) ==
    CASE scope = "playback" ->
            {0 - 1, 1, 3} \cup
            (IF players[p].fullAudioBuffer # Null
             THEN {players[p].fullAudioBuffer + TEN_SECONDS} ELSE {TEN_SECONDS})
      [] scope = "liveness" ->
            IF players[p].now < ClockBound THEN {1} ELSE {}
      [] OTHER -> {1}

Seek(p, t) ==
    /\ LET H == seek(Heap, p, t) IN
         /\ H.room
         /\ players' = H.players
         /\ sources' = H.sources
    /\ last' = Evt("seek", p, t)
    /\ UNCHANGED <<byteVars, diffVars, scope, variant, currentPlayer, statusTxt, bytesTxt>>

\* the clock of p's audio context advances by one unit; a playing source
\* whose buffer is exhausted ends and its ended event is queued
EndTime(src) == src.startedAt + (src.buffer - src.offset)

\* Scope "liveness": once the stream is finished, only the time during which
\* a source of p plays is counted, for as long as one plays
Running(p) ==
    /\ scope = "liveness"
    /\ players[p].pc = "finished"
    /\ \E s \in SourceIds : sources[s].owner = p /\ sources[s].state = "playing"

ClockTick(p) ==
    /\ players[p].ctxState = "open"
    /\ players[p].now < ClockBound \/ Running(p)
    /\ players' = [players EXCEPT ![p].now = @ + 1]
    /\ sources' = [s \in SourceIds |->
          IF sources[s].owner = p /\ sources[s].state = "playing"
             /\ EndTime(sources[s]) <= players[p].now + 1
          THEN [sources[s] EXCEPT !.state = "ended", !.eventPending = TRUE]
          ELSE sources[s]]
    /\ last' = Evt("clock", p, 0)
    /\ UNCHANGED <<byteVars, diffVars, scope, variant, currentPlayer, statusTxt, bytesTxt>>

\* the ended event of source s is dispatched to the handler it has now
EndedEvent(s) ==
    /\ sources[s].eventPending
    /\ LET H0 == [Heap EXCEPT !.sources[s] = FreeSource]
           H == IF sources[s].onended THEN onended(H0, sources[s].owner) ELSE H0
       IN /\ players' = H.players
          /\ sources' = H.sources
    /\ last' = Evt("ended", sources[s].owner, 0)
    /\ UNCHANGED <<byteVars, diffVars, scope, variant, currentPlayer, statusTxt, bytesTxt>>

Next ==
    \/ ClickStop
    \/ \E type \in PLAYLIST : ClickTrack(type)
    \/ \E p \in PlayerIds, len \in FileLens : \E declared \in Declared(len) :
          FetchResolve(p, len, declared)
    \/ \E p \in PlayerIds : TransferAborted(p)
    \/ \E p \in PlayerIds : TransferFailed(p)
    \/ \E p \in PlayerIds, c \in ChunkLens, out \in AiffOutcomes :
          ReadChunk(p, Min(c, players[p].fileLen - players[p].totalBytes), out)
    \/ \E p \in PlayerIds, out \in AiffOutcomes : ReadDone(p, out)
    \/ \E p \in PlayerIds, d \in Durations : DecodeResolve(p, d)
    \/ \E p \in PlayerIds : DecodeReject(p)
    \/ \E p \in PlayerIds : Heartbeat(p)
    \/ \E p \in PlayerIds : \E t \in SeekTimes(p) : Seek(p, t)
    \/ \E p \in PlayerIds : ClockTick(p)
    \/ \E s \in SourceIds : EndedEvent(s)

\* last.arg: the time asked for by a seek; 1 for a heartbeat that restarted
\* playback, 0 for one that did not
Init == InitScope("playback")
InitDownload == InitScope("download")
InitSwitch == InitScope("switch")

Spec == Init /\ [][Next]_vars
SpecDownload == InitDownload /\ [][Next]_vars
SpecSwitch == InitSwitch /\ [][Next]_vars

\* Scope "liveness": one track whose stream takes a cadence decode and a final
\* decode. The interval of startMonitor fires again and again, the audio
\* clock runs while a source plays, and a queued ended event is dispatched.
InitLive == InitScope("liveness")
Fairness ==
    /\ \A p \in 1..MaxPlayers : WF_vars(p \in PlayerIds /\ Heartbeat(p))
    /\ \A p \in 1..MaxPlayers : WF_vars(p \in PlayerIds /\ ClockTick(p))
    /\ \A s \in SourceIds : WF_vars(EndedEvent(s))
SpecLive == InitLive /\ [][Next]_vars /\ Fairness

\* the file behind the track's URL is fixed for the whole behaviour
InitConverge ==
    /\ scope = "convergence"
    /\ variant \in {1, 2}
    /\ EngineIdle
    /\ DiffIdle
    /\ input \in {[fn |-> "file", trailing |-> b] : b \in BOOLEAN}
    /\ output = NoCall

SpecConverge == InitConverge /\ [][Next]_vars

(* ------------------ the differential player (part_000) ----------------- *)
(* Operators on G, the record of the script's globals, model its           *)
(* functions; the actions below apply them to the variables.  Frames are   *)
(* counted in blocks of 50 ms of audio, so that a buffer of n blocks lasts *)
(* n units of time.                                                        *)

MaxTracks == 2
MaxChunks == 3
MaxFrames == 3
MaxDiffClock == 2

Globals ==
    [audioCtx |-> audioCtx, contexts |-> contexts,
     nextStartTime |-> nextStartTime, isPlaying |-> isPlaying,
     abortController |-> abortController, sourceNodes |-> sourceNodes,
     nodes |-> nodes, tracks |-> tracks, ui |-> ui]

TrackIds == 1..Len(tracks)
NodeIds == 1..Len(nodes)
ContextIds == 1..Len(contexts)

\* the elements of the array a
Elems(a) == {a[i] : i \in 1..Len(a)}

\* a node that can no longer sound or be found in sourceNodes: nothing reads
\* its slice or its start time again
Spent(node, state) ==
    [node EXCEPT !.from = 0, !.to = 0, !.at = 0, !.state = state]

\* a.splice(a.indexOf(x), 1) when x is in a
RECURSIVE Splice(_, _)
Splice(a, x) ==
    IF a = <<>> THEN <<>>
    ELSE IF Head(a) = x THEN Tail(a)
    ELSE <<Head(a)>> \o Splice(Tail(a), x)

\* (bytes / (1024 * 1024)).toFixed(2): hundredths of a MiB, rounded to nearest
DiffMB(bytes) == (bytes * 100 + 524288) \div 1048576

\* contentLength ? (receivedLength / contentLength) * 100 : 0, as a fraction
DiffPercent(receivedLength, contentLength) ==
    IF contentLength # 0 THEN <<receivedLength * 100, contentLength>> ELSE <<0, 1>>

resetPlayer(G) ==
    [G EXCEPT
       !.tracks = [t \in 1..Len(G.tracks) |->
                     IF t = G.abortController
                     THEN [G.tracks[t] EXCEPT !.aborted = TRUE]
                     ELSE G.tracks[t]],
       !.nodes = [n \in 1..Len(G.nodes) |->
                    IF n \in Elems(G.sourceNodes) /\ G.nodes[n].state = "scheduled"
                    THEN Spent(G.nodes[n], "stopped")
                    ELSE G.nodes[n]],
       !.sourceNodes = <<>>,
       !.contexts = [c \in 1..Len(G.contexts) |->
                       IF c = G.audioCtx
                       THEN [state |-> "closed", currentTime |-> 0]
                       ELSE G.contexts[c]],
       !.audioCtx = Null,
       !.isPlaying = FALSE,
       !.ui = [G.ui EXCEPT !.stopDisabled = TRUE,
                           !.statusText = "Stopped.",
                           !.progressBar = <<0, 1>>]]

\* resetPlayer has emptied sourceNodes before a node it stopped dispatches its
\* ended event, so that node's handler finds indexOf(source) = -1: a stopped
\* node is spent.  The currentTime of a closed context is read by nobody.
initAudio(G) ==
    [G EXCEPT
       !.contexts = Append(G.contexts, [state |-> "running", currentTime |-> 0]),
       !.audioCtx = Len(G.contexts) + 1,
       !.nextStartTime = 0]

\* scheduleNewSegment copying the whole decoded buffer instead of its new part
scheduleNewSegment_WholeBuffer(G, t, fullLength, startSampleIndex) ==
    IF startSampleIndex >= fullLength THEN [G |-> G, thrown |-> FALSE]
    ELSE IF G.audioCtx = Null THEN [G |-> G, thrown |-> TRUE]
    ELSE LET scheduleTime == Max(G.contexts[G.audioCtx].currentTime, G.nextStartTime)
             source == [ctx |-> G.audioCtx, track |-> t,
                        from |-> 0, to |-> fullLength,
                        at |-> scheduleTime, state |-> "scheduled"]
         IN [G |-> [G EXCEPT !.nodes = Append(G.nodes, source),
                             !.nextStartTime = scheduleTime + fullLength,
                             !.sourceNodes = Append(G.sourceNodes, Len(G.nodes) + 1)],
             thrown |-> FALSE]

\* scheduleNewSegment starting every unit at the context's current time
scheduleNewSegment_StartsNow(G, t, fullLength, startSampleIndex) ==
    IF startSampleIndex >= fullLength THEN [G |-> G, thrown |-> FALSE]
    ELSE IF G.audioCtx = Null THEN [G |-> G, thrown |-> TRUE]
    ELSE LET newFrameCount == fullLength - startSampleIndex
             scheduleTime == G.contexts[G.audioCtx].currentTime
             source == [ctx |-> G.audioCtx, track |-> t,
                        from |-> startSampleIndex, to |-> fullLength,
                        at |-> scheduleTime, state |-> "scheduled"]
         IN [G |-> [G EXCEPT !.nodes = Append(G.nodes, source),
                             !.nextStartTime = scheduleTime + newFrameCount,
                             !.sourceNodes = Append(G.sourceNodes, Len(G.nodes) + 1)],
             thrown |-> FALSE]

\* scheduleNewSegment, called by the loop of track t with a decoded buffer of
\* fullLength frames; thrown: audioCtx.createBuffer on a null audioCtx
scheduleNewSegment(G, t, fullLength, startSampleIndex) ==
    IF startSampleIndex >= fullLength THEN [G |-> G, thrown |-> FALSE]
    ELSE IF G.audioCtx = Null THEN [G |-> G, thrown |-> TRUE]
    ELSE LET newFrameCount == fullLength - startSampleIndex
             scheduleTime == Max(G.contexts[G.audioCtx].currentTime, G.nextStartTime)
             source == [ctx |-> G.audioCtx, track |-> t,
                        from |-> startSampleIndex, to |-> fullLength,
                        at |-> scheduleTime, state |-> "scheduled"]
         IN [G |-> [G EXCEPT !.nodes = Append(G.nodes, source),
                             !.nextStartTime = scheduleTime + newFrameCount,
                             !.sourceNodes = Append(G.sourceNodes, Len(G.nodes) + 1)],
             thrown |-> FALSE]

\* the locals of one call of playChunkedAudio
NewTrack ==
    [pc |-> "fetching", aborted |-> FALSE, contentLength |-> 0, fileLen |-> 0,
     receivedLength |-> 0, lastDecodedSample |-> 0]

\* playChunkedAudio has returned: its locals are gone
Left(how) == [NewTrack EXCEPT !.pc = how, !.aborted = TRUE]

Apply(G) ==
    /\ audioCtx' = G.audioCtx
    /\ contexts' = G.contexts
    /\ nextStartTime' = G.nextStartTime
    /\ isPlaying' = G.isPlaying
    /\ abortController' = G.abortController
    /\ sourceNodes' = G.sourceNodes
    /\ nodes' = G.nodes
    /\ tracks' = G.tracks
    /\ ui' = G.ui

\* "differential": up to MaxTracks tracks, each superseding the previous one,
\*                 over a two-chunk stream.
\* "segments"    : one track, every stream input (file and chunk lengths,
\*                 declared length), every decoded length, the clock.
DiffPlaylist == {"AIFF", "MP3"}
DiffFileLens ==
    IF scope = "segments" THEN {k * Unit : k \in 1..MaxChunks} ELSE {2 * Unit}
DiffChunkLens == IF scope = "segments" THEN {Unit, 2 * Unit} ELSE {Unit}
DiffDeclared(len) == IF scope = "segments" THEN {0, len} ELSE {len}
DecodedLengths == IF scope = "segments" THEN 1..MaxFrames ELSE {1, MaxFrames}
TracksBound == IF scope = "segments" THEN 1 ELSE MaxTracks
DiffClockBound == IF scope = "segments" THEN MaxDiffClock ELSE 1

\* stopBtn.onclick = resetPlayer
DiffClickStop ==
    /\ Apply(resetPlayer(Globals))
    /\ last' = Evt("resetPlayer", 0, 0)
    /\ UNCHANGED <<byteVars, scope, engineVars>>

\* btn.onclick: playChunkedAudio(file) up to its first await
DiffClickTrack(type) ==
    /\ Len(tracks) < TracksBound
    /\ LET G1 == initAudio(resetPlayer(Globals))
           t == Len(tracks) + 1
       IN Apply([G1 EXCEPT
                   !.ui = [G1.ui EXCEPT !.stopDisabled = FALSE,
                                        !.statusText = "Connecting to " \o type \o "..."],
                   !.isPlaying = TRUE,
                   !.tracks = Append(G1.tracks, NewTrack),
                   !.abortController = t])
    /\ last' = Evt("playChunkedAudio", Len(tracks) + 1, 0)
    /\ UNCHANGED <<byteVars, scope, engineVars>>

\* fetch resolves: the response's status and headers have arrived
DiffFetchResolve(t, ok, len, declared) ==
    /\ tracks[t].pc = "fetching"
    /\ ~tracks[t].aborted
    /\ IF ok
       THEN /\ tracks' = [tracks EXCEPT ![t] =
                  [@ EXCEPT !.pc = "reading", !.contentLength = declared,
                            !.fileLen = len]]
            /\ ui' = [ui EXCEPT !.totalSize =
                        IF declared # 0 THEN DiffMB(declared) ELSE -1]
       ELSE /\ tracks' = [tracks EXCEPT ![t] = Left("failed")]
            /\ ui' = [ui EXCEPT !.statusText = "Error: Network response was not ok"]
    /\ last' = Evt("fetched", t, 0)
    /\ UNCHANGED <<byteVars, scope, engineVars, audioCtx, contexts, nextStartTime, isPlaying,
                   abortController, sourceNodes, nodes>>

\* the fetch or the pending read rejects with an AbortError: logged
DiffAborted(t) ==
    /\ tracks[t].pc \in {"fetching", "reading"}
    /\ tracks[t].aborted
    /\ tracks' = [tracks EXCEPT ![t] = Left("aborted")]
    /\ last' = Evt("aborted", t, 0)
    /\ UNCHANGED <<byteVars, scope, engineVars, audioCtx, contexts, nextStartTime, isPlaying,
                   abortController, sourceNodes, nodes, ui>>

\* the fetch or the pending read rejects with a network error
DiffFailed(t) ==
    /\ tracks[t].pc \in {"fetching", "reading"}
    /\ ~tracks[t].aborted
    /\ tracks' = [tracks EXCEPT ![t] = Left("failed")]
    /\ ui' = [ui EXCEPT !.statusText = "Error: network"]
    /\ last' = Evt("failed", t, 0)
    /\ UNCHANGED <<byteVars, scope, engineVars, audioCtx, contexts, nextStartTime, isPlaying,
                   abortController, sourceNodes, nodes>>

\* reader.read() resolves with a chunk of n bytes: the UI is updated and
\* everything received so far is handed to audioCtx.decodeAudioData
DiffReadChunk(t, n) ==
    /\ tracks[t].pc = "reading"
    /\ ~tracks[t].aborted
    /\ n > 0
    /\ LET received == tracks[t].receivedLength + n IN
         /\ tracks' = [tracks EXCEPT ![t] =
               [@ EXCEPT !.receivedLength = received,
                         !.pc = IF audioCtx = Null THEN "reading" ELSE "decoding"]]
         /\ ui' = [ui EXCEPT
               !.progressBar = DiffPercent(received, tracks[t].contentLength),
               !.bytesLoaded = DiffMB(received),
               !.statusText = "Buffering & Playing..."]
    /\ last' = Evt("chunk", t, 0)
    /\ UNCHANGED <<byteVars, scope, engineVars, audioCtx, contexts, nextStartTime, isPlaying,
                   abortController, sourceNodes, nodes>>

\* reader.read() resolves with done: the loop is left
DiffReadDone(t) ==
    /\ tracks[t].pc = "reading"
    /\ ~tracks[t].aborted
    /\ tracks[t].receivedLength = tracks[t].fileLen
    /\ tracks' = [tracks EXCEPT ![t] = Left("finished")]
    /\ ui' = [ui EXCEPT !.statusText = "Download Complete. Playing remaining..."]
    /\ last' = Evt("done", t, 0)
    /\ UNCHANGED <<byteVars, scope, engineVars, audioCtx, contexts, nextStartTime, isPlaying,
                   abortController, sourceNodes, nodes>>

\* decodeAudioData resolves with a buffer of `length` frames: the loop of
\* track t schedules the new part and moves its pointer, then reads again
DiffDecodeResolve(t, length) ==
    /\ tracks[t].pc = "decoding"
    /\ LET r == scheduleNewSegment(Globals, t, length, tracks[t].lastDecodedSample)
       IN Apply([r.G EXCEPT !.tracks[t] =
                   [@ EXCEPT !.pc = "reading",
                             !.lastDecodedSample =
                                 IF r.thrown THEN @ ELSE length]])
    /\ last' = Evt("decoded", t, length)
    /\ UNCHANGED <<byteVars, scope, engineVars>>

\* decodeAudioData rejects: warned about, the loop reads again
DiffDecodeReject(t) ==
    /\ tracks[t].pc = "decoding"
    /\ tracks' = [tracks EXCEPT ![t].pc = "reading"]
    /\ last' = Evt("undecoded", t, 0)
    /\ UNCHANGED <<byteVars, scope, engineVars, audioCtx, contexts, nextStartTime, isPlaying,
                   abortController, sourceNodes, nodes, ui>>

\* the clock of a running context advances by one unit
DiffClockTick(c) ==
    /\ contexts[c].state = "running"
    /\ contexts[c].currentTime < DiffClockBound
    /\ contexts' = [contexts EXCEPT ![c].currentTime = @ + 1]
    /\ last' = Evt("clock", c, 0)
    /\ UNCHANGED <<byteVars, scope, engineVars, audioCtx, nextStartTime, isPlaying,
                   abortController, sourceNodes, nodes, tracks, ui>>

\* node n has played to its end: its onended handler runs
DiffEnded(n) ==
    /\ nodes[n].state = "scheduled"
    /\ contexts[nodes[n].ctx].state = "running"
    /\ contexts[nodes[n].ctx].currentTime
          >= nodes[n].at + (nodes[n].to - nodes[n].from)
    /\ nodes' = [nodes EXCEPT ![n] = Spent(@, "ended")]
    /\ sourceNodes' = Splice(sourceNodes, n)
    /\ last' = Evt("ended", n, 0)
    /\ UNCHANGED <<byteVars, scope, engineVars, audioCtx, contexts, nextStartTime, isPlaying,
                   abortController, tracks, ui>>

NextDiff ==
    \/ DiffClickStop
    \/ \E type \in DiffPlaylist : DiffClickTrack(type)
    \/ \E t \in TrackIds, ok \in BOOLEAN, len \in DiffFileLens :
          \E declared \in DiffDeclared(len) : DiffFetchResolve(t, ok, len, declared)
    \/ \E t \in TrackIds : DiffAborted(t)
    \/ \E t \in TrackIds : DiffFailed(t)
    \/ \E t \in TrackIds, c \in DiffChunkLens :
          DiffReadChunk(t, Min(c, tracks[t].fileLen - tracks[t].receivedLength))
    \/ \E t \in TrackIds : DiffReadDone(t)
    \/ \E t \in TrackIds, length \in DecodedLengths : DiffDecodeResolve(t, length)
    \/ \E t \in TrackIds : DiffDecodeReject(t)
    \/ \E c \in ContextIds : DiffClockTick(c)
    \/ \E n \in NodeIds : DiffEnded(n)

InitDiffScope(sc) ==
    /\ scope = sc
    /\ variant = 1
    /\ EngineIdle
    /\ DiffIdle
    /\ ByteIdle

InitDiff == InitDiffScope("differential")
InitSegments == InitDiffScope("segments")

SpecDiff == InitDiff /\ [][NextDiff]_vars
SpecSegments == InitSegments /\ [][NextDiff]_vars

(* ------------------------ byte-level functions ------------------------- *)
(* A view is a sequence of bytes: the byte at offset k is view[k + 1].     *)
(* The files explored keep every 32-bit field below 2^31.                  *)

MaxPre == 3
MaxData == 2

\* what a DataView access outside the view, or a failed construction, throws
RangeError == [fn |-> "RangeError"]

getUint8(view, offset) == view[offset + 1]

getUint16(view, offset) == 256 * view[offset + 1] + view[offset + 2]

getUint32(view, offset, littleEndian) ==
    IF littleEndian
    THEN view[offset + 1] + 256 * view[offset + 2]
           + 65536 * view[offset + 3] + 16777216 * view[offset + 4]
    ELSE 16777216 * view[offset + 1] + 65536 * view[offset + 2]
           + 256 * view[offset + 3] + view[offset + 4]

\* the four bytes of value modulo 2^32, most significant first
Uint32Bytes(value) ==
    <<(value \div 16777216) % 256, (value \div 65536) % 256,
      (value \div 256) % 256, value % 256>>

Reverse4(b) == <<b[4], b[3], b[2], b[1]>>

\* view.setUint32(offset, value, littleEndian), inside the view
setUint32(view, offset, value, littleEndian) ==
    LET b == IF littleEndian THEN Reverse4(Uint32Bytes(value)) ELSE Uint32Bytes(value)
    IN [i \in 1..Len(view) |->
          IF i > offset /\ i <= offset + 4 THEN b[i - offset] ELSE view[i]]

\* getAscii(view, offset, 4) of the patchers, as character codes
getAscii(view, offset) == SubSeq(view, offset + 1, offset + 4)

FORM == <<70, 79, 82, 77>>
AIFF == <<65, 73, 70, 70>>
SSND == <<83, 83, 78, 68>>
NAME == <<78, 65, 77, 69>>
RIFF == <<82, 73, 70, 70>>
WAVE == <<87, 65, 86, 69>>
LIST == <<76, 73, 83, 84>>
data == <<100, 97, 116, 97>>

\* the while loop of AiffHeaderPatcher.patch, from offset on
RECURSIVE AiffPatchLoop(_, _, _)
AiffPatchLoop(view, totalLength, offset) ==
    IF ~(offset < Len(view) - 8) THEN view
    ELSE LET chunkId == getAscii(view, offset)
             chunkSize == getUint32(view, offset + 4, FALSE)
         IN IF chunkId = SSND
            THEN setUint32(view, offset + 4, totalLength - (offset + 8), FALSE)
            ELSE AiffPatchLoop(view, totalLength, offset + 8 + chunkSize)

AiffHeaderPatcher(view, totalLength) ==
    IF Len(view) < 8 THEN RangeError
    ELSE AiffPatchLoop(setUint32(view, 4, totalLength - 8, FALSE), totalLength, 12)

\* the while loop of WavHeaderPatcher.patch, from offset on
RECURSIVE WavPatchLoop(_, _, _)
WavPatchLoop(view, totalLength, offset) ==
    IF ~(offset < Len(view) - 8) THEN view
    ELSE LET chunkId == getAscii(view, offset)
         IN IF chunkId = data
            THEN setUint32(view, offset + 4, totalLength - (offset + 8), TRUE)
            ELSE WavPatchLoop(view, totalLength,
                              offset + 8 + getUint32(view, offset + 4, TRUE))

WavHeaderPatcher(view, totalLength) ==
    IF Len(view) < 8 THEN RangeError
    ELSE WavPatchLoop(setUint32(view, 4, totalLength - 8, TRUE), totalLength, 12)

\* ---- the files ----
\* n bytes of value v
Fill(n, v) == [i \in 1..n |-> v]

Field32(value, littleEndian) ==
    IF littleEndian THEN Reverse4(Uint32Bytes(value)) ELSE Uint32Bytes(value)

\* a chunk with its pad byte when its size is odd
Chunk(id, payload, littleEndian) ==
    id \o Field32(Len(payload), littleEndian) \o payload
       \o (IF Len(payload) % 2 = 1 THEN <<0>> ELSE <<>>)

\* a well-formed container: the 12 bytes of the form header, an optional
\* chunk of preSize payload bytes (none when preSize < 0), the sample-data
\* chunk with dataLen payload bytes, and an optional two-byte chunk after it
Container(fmt, preSize, dataLen, trailing) ==
    LET le == fmt = "WAV"
        other == IF le THEN LIST ELSE NAME
        pre == IF preSize < 0 THEN <<>> ELSE Chunk(other, Fill(preSize, 1), le)
        post == IF trailing THEN Chunk(other, Fill(2, 1), le) ELSE <<>>
        body == pre \o Chunk(IF le THEN data ELSE SSND, Fill(dataLen, 7), le)
                    \o post
    IN (IF le THEN RIFF ELSE FORM) \o Field32(4 + Len(body), le)
          \o (IF le THEN WAVE ELSE AIFF) \o body

\* the offset of the header of the sample-data chunk in Container(...)
SampleChunkOffset(preSize) ==
    IF preSize < 0 THEN 12 ELSE 12 + 8 + preSize + (preSize % 2)

\* the prefixes handed to patch: they contain the sample-data chunk's header
PatchInputs ==
    UNION {{[fn |-> "patch", fmt |-> fmt, o |-> SampleChunkOffset(preSize),
             view |-> SubSeq(Container(fmt, preSize, MaxData, trailing), 1, L)] :
               L \in (SampleChunkOffset(preSize) + 8)
                       ..Len(Container(fmt, preSize, MaxData, trailing))} :
              fmt \in {"AIFF", "WAV"}, preSize \in (0 - 1)..MaxPre,
              trailing \in BOOLEAN}

InitPatch ==
    /\ scope = "patch"
    /\ variant = 1
    /\ EngineIdle
    /\ DiffIdle
    /\ input \in PatchInputs
    /\ output = NoCall

\* process(): AiffHeaderPatcher.patch(new DataView(flat.buffer), size)
PatchAiff ==
    /\ input.fn = "patch" /\ input.fmt = "AIFF"
    /\ output = NoCall
    /\ output' = [fn |-> "patch", view |-> AiffHeaderPatcher(input.view, Len(input.view))]
    /\ last' = Evt("patch", 0, 0)
    /\ UNCHANGED <<scope, engineVars, diffVars, input>>

\* process(): WavHeaderPatcher.patch(new DataView(flat.buffer), size)
PatchWav ==
    /\ input.fn = "patch" /\ input.fmt = "WAV"
    /\ output = NoCall
    /\ output' = [fn |-> "patch", view |-> WavHeaderPatcher(input.view, Len(input.view))]
    /\ last' = Evt("patch", 0, 0)
    /\ UNCHANGED <<scope, engineVars, diffVars, input>>

NextPatch == PatchAiff \/ PatchWav

SpecPatch == InitPatch /\ [][NextPatch]_vars

\* ---- AiffParser.parseExtended ----
MaxOffset == 4

RECURSIVE Pow2(_)
Pow2(n) == IF n <= 0 THEN 1 ELSE 2 * Pow2(n - 1)

\* the largest e with 2^e <= n, for n >= 1
RECURSIVE Log2(_)
Log2(n) == IF n < 2 THEN 0 ELSE 1 + Log2(n \div 2)

\* A number returned by parseExtended is kept as sign * 0.w1w2w3w4 * 2^exp,
\* the four 16-bit words w of mantissaHigh and mantissaLow being the digits
\* (base 65536) after the point: mantissaHigh * 2^-32 + mantissaLow * 2^-64.
Zero == [sign |-> 1, words |-> <<0, 0, 0, 0>>, exp |-> 0]

parseExtended(view, offset) ==
    LET exponent == getUint16(view, offset)
        mantissaHigh == <<getUint16(view, offset + 2), getUint16(view, offset + 4)>>
        mantissaLow == <<getUint16(view, offset + 6), getUint16(view, offset + 8)>>
        sign == IF exponent >= 32768 THEN 0 - 1 ELSE 1
        exp == (exponent % 32768) - 16383
    IN IF exp = 0 - 16383 THEN Zero
       ELSE [sign |-> sign, words |-> mantissaHigh \o mantissaLow, exp |-> exp]

\* the 10-byte extended-precision encoding of the integer rate: biased
\* exponent, then the 64-bit mantissa with its explicit integer bit set
Extended(rate) ==
    IF rate = 0 THEN Fill(10, 0)
    ELSE LET e == Log2(rate)
             w1 == IF e <= 15 THEN rate * Pow2(15 - e) ELSE rate \div Pow2(e - 15)
             w2 == IF e <= 15 THEN 0 ELSE (rate % Pow2(e - 15)) * Pow2(31 - e)
             word(w) == <<w \div 256, w % 256>>
         IN word(16383 + e) \o word(w1) \o word(w2) \o word(0) \o word(0)

StandardRates ==
    {8000, 11025, 16000, 22050, 32000, 44100, 48000, 88200, 96000, 176400, 192000}

\* |x - rate| <= rate / 1000000 for x = the number v, whose words after the
\* first are 0 in every encoding explored: x = w1 * 2^(exp - 16)
WithinMillionth(v, rate) ==
    LET e == v.exp - 16
        w1 == v.words[1]
        Abs(d) == IF d < 0 THEN 0 - d ELSE d
    IN /\ v.sign = 1
       /\ v.words[2] = 0 /\ v.words[3] = 0 /\ v.words[4] = 0
       /\ IF e >= 0
          THEN Abs(w1 * Pow2(e) - rate) <= rate \div 1000000
          ELSE Abs(w1 - rate * Pow2(0 - e)) <= (rate * Pow2(0 - e)) \div 1000000

\* the sample rate field of a COMM chunk, at every offset up to MaxOffset
ExtendedInputs ==
    {[fn |-> "parseExtended", rate |-> rate, offset |-> offset,
      view |-> Fill(offset, 1) \o Extended(rate)] :
        rate \in StandardRates \cup {0}, offset \in 0..MaxOffset}

InitExtended ==
    /\ scope = "extended"
    /\ variant = 2
    /\ EngineIdle
    /\ DiffIdle
    /\ input \in ExtendedInputs
    /\ output = NoCall

\* parseHeader: this.sampleRate = this.parseExtended(view, offset + 16)
ParseExtended ==
    /\ input.fn = "parseExtended"
    /\ output = NoCall
    /\ output' = [fn |-> "parseExtended",
                  value |-> parseExtended(input.view, input.offset)]
    /\ last' = Evt("parseExtended", 0, 0)
    /\ UNCHANGED <<scope, engineVars, diffVars, input>>

NextExtended == ParseExtended

SpecExtended == InitExtended /\ [][NextExtended]_vars

\* ---- AiffParser.decode ----
MaxRaw == 6
MaxChannels == 2

getInt8(view, offset) ==
    LET b == getUint8(view, offset) IN IF b >= 128 THEN b - 256 ELSE b

getInt16(view, offset) ==
    LET u == getUint16(view, offset) IN IF u >= 32768 THEN u - 65536 ELSE u

\* one sample as the fraction <<numerator, denominator>>; each is exact in
\* a Float32Array element (at most 24 significant bits)
sampleAt_NoSignExtend(view, bytePtr, bitDepth) ==
    IF bitDepth = 16 THEN <<getInt16(view, bytePtr), 32768>>
    ELSE IF bitDepth = 24
         THEN <<getUint8(view, bytePtr) * 65536 + getUint8(view, bytePtr + 1) * 256
                  + getUint8(view, bytePtr + 2), 8388608>>
         ELSE <<getInt8(view, bytePtr), 128>>

sampleAt(view, bytePtr, bitDepth) ==
    IF bitDepth = 16 THEN <<getInt16(view, bytePtr), 32768>>
    ELSE IF bitDepth = 24
         THEN LET b1 == getUint8(view, bytePtr)
                  b2 == getUint8(view, bytePtr + 1)
                  b3 == getUint8(view, bytePtr + 2)
                  \* b1 << 24 is an int32: bit 7 of b1 becomes the sign bit;
                  \* the three shifted bytes share no bit, so | adds them
                  s32 == (IF b1 >= 128 THEN b1 - 256 ELSE b1) * 16777216
                           + b2 * 65536 + b3 * 256
              IN <<s32 \div 256, 8388608>>   \* >> 8 keeps the sign
         ELSE <<getInt8(view, bytePtr), 128>>

\* bytePtr advances by bitDepth / 8 per sample, frame by frame and channel
\* by channel within a frame
decode(rawBytes, numChannels, bitDepth) ==
    LET width == bitDepth \div 8
        numSamples == Len(rawBytes) \div width
        numFrames == numSamples \div numChannels
    IN [ch \in 1..numChannels |->
          [i \in 1..numFrames |->
             sampleAt(rawBytes, ((i - 1) * numChannels + (ch - 1)) * width, bitDepth)]]

SampleBytes == {0, 64, 128, 255}
BitDepths == {8, 16, 24}

RECURSIVE ByteSeqs(_)
ByteSeqs(n) ==
    IF n = 0 THEN {<<>>}
    ELSE LET shorter == ByteSeqs(n - 1)
         IN shorter \cup {Append(s, b) : s \in {x \in shorter : Len(x) = n - 1},
                                         b \in SampleBytes}

DecodeInputs ==
    {[fn |-> "decode", rawBytes |-> rawBytes, numChannels |-> numChannels,
      bitDepth |-> bitDepth] :
        rawBytes \in ByteSeqs(MaxRaw), numChannels \in 1..MaxChannels,
        bitDepth \in BitDepths}

InitDecode ==
    /\ scope = "decode"
    /\ variant = 2
    /\ EngineIdle
    /\ DiffIdle
    /\ input \in DecodeInputs
    /\ output = NoCall

\* AiffManualPlayer.process: const planes = this.parser.decode(pcmData)
Decode ==
    /\ input.fn = "decode"
    /\ output = NoCall
    /\ output' = [fn |-> "decode",
                  planes |-> decode(input.rawBytes, input.numChannels, input.bitDepth)]
    /\ last' = Evt("decode", 0, 0)
    /\ UNCHANGED <<scope, engineVars, diffVars, input>>

NextDecode == Decode

SpecDecode == InitDecode /\ [][NextDecode]_vars

\* ---- AiffParser.parseHeader and AiffManualPlayer.process on prefixes ----
MaxCalls == 2

COMM == <<67, 79, 77, 77>>
AIFC == <<65, 73, 70, 67>>

\* the sampleRate a new AiffParser holds: 44100 = 0.AC44 (base 65536) * 2^16
Rate44100 == [sign |-> 1, words |-> <<44100, 0, 0, 0>>, exp |-> 16]

\* AiffParser.constructor; frameSize is kept as a fraction <<n, d>>
NewParser ==
    [headerParsed |-> FALSE, numChannels |-> 2, sampleRate |-> Rate44100,
     bitDepth |-> 16, dataOffset |-> 0, dataSize |-> 0, frameSize |-> <<4, 1>>]

\* AiffParser.getAscii(view, offset, 4): the printable characters among the
\* four bytes; view.getUint8 throws a RangeError past the end of the view
Printable(bytes) == SelectSeq(bytes, LAMBDA c : c > 31 /\ c < 127)

parserAscii(view, offset) == Printable(SubSeq(view, offset + 1, offset + 4))

\* the while loop of parseHeader from `offset` on; foundComm and foundSsnd
\* are its local flags
RECURSIVE ScanChunks(_, _, _, _, _)
ScanChunks(parser, view, offset, foundComm, foundSsnd) ==
    IF offset >= Len(view) \/ offset + 8 > Len(view)
    THEN [parser |-> parser, ret |-> "false"]
    ELSE LET chunkId == parserAscii(view, offset)
             chunkSize == getUint32(view, offset + 4, FALSE)
         IN IF chunkId = COMM /\ offset + 26 > Len(view)
            THEN [parser |-> parser, ret |-> "false"]
            ELSE LET p1 == IF chunkId = COMM
                           THEN [parser EXCEPT
                                   !.numChannels = getInt16(view, offset + 8),
                                   !.bitDepth = getInt16(view, offset + 14),
                                   !.sampleRate = parseExtended(view, offset + 16)]
                           ELSE IF chunkId = SSND
                           THEN [parser EXCEPT !.dataOffset = offset + 8 + 8,
                                               !.dataSize = chunkSize - 8]
                           ELSE parser
                     comm == foundComm \/ chunkId = COMM
                     ssnd == foundSsnd \/ (chunkId # COMM /\ chunkId = SSND)
                     next == offset + 8 + chunkSize + (chunkSize % 2)
                 IN IF comm /\ ssnd
                    THEN [parser |-> [p1 EXCEPT
                                        !.headerParsed = TRUE,
                                        !.frameSize = <<p1.numChannels * p1.bitDepth, 8>>],
                          ret |-> "true"]
                    ELSE ScanChunks(p1, view, next, comm, ssnd)

\* ret: "true", "false", or "throw" (the RangeError of getAscii leaves it)
parseHeader(parser, view) ==
    IF parser.headerParsed THEN [parser |-> parser, ret |-> "true"]
    ELSE IF Len(view) < 4 THEN [parser |-> parser, ret |-> "throw"]
    ELSE IF parserAscii(view, 0) # FORM THEN [parser |-> parser, ret |-> "false"]
    ELSE IF Len(view) < 12 THEN [parser |-> parser, ret |-> "throw"]
    ELSE IF parserAscii(view, 8) # AIFF THEN [parser |-> parser, ret |-> "false"]
    ELSE ScanChunks(parser, view, 12, FALSE, FALSE)

\* a header step that scans again on every call and takes the part of the
\* sample data present in the view for dataSize
headerStep_Reparses(parser, view) ==
    LET r == ScanChunks(parser, view, 12, FALSE, FALSE)
    IN IF Len(view) < 12 \/ r.ret = "false" THEN [parser |-> parser, ret |-> "false"]
       ELSE [r EXCEPT !.parser.dataSize = Min(@, Len(view) - r.parser.dataOffset)]

\* step 1 of process: if (!this.parser.headerParsed) parseHeader(view)
headerStep(parser, view) ==
    IF parser.headerParsed THEN [parser |-> parser, ret |-> "true"]
    ELSE parseHeader(parser, view)

\* AiffManualPlayer.process on a non-stopped player: its two steps. ret is
\* "retry" (return after a failed parseHeader), "throw", "nothing" (no byte
\* past dataOffset, or no whole frame) or "buffer" (fullAudioBuffer is set to
\* `frames` frames decoded from the bytes from..to of the view)
process(parser, view) ==
    LET h == headerStep(parser, view)
        p1 == h.parser
        dataEnd == Min(Len(view), p1.dataOffset + p1.dataSize)
        audioRaw == SubSeq(view, p1.dataOffset + 1, dataEnd)
        length == Len(decode(audioRaw, p1.numChannels, p1.bitDepth)[1])
        none == [parser |-> p1, ret |-> "nothing", from |-> 0, to |-> 0, frames |-> 0]
    IN IF h.ret = "throw" THEN [none EXCEPT !.ret = "throw"]
       ELSE IF h.ret = "false" THEN [none EXCEPT !.ret = "retry"]
       ELSE IF Len(view) > p1.dataOffset /\ length > 0
            THEN [parser |-> p1, ret |-> "buffer", from |-> p1.dataOffset,
                  to |-> dataEnd, frames |-> length]
            ELSE none

\* the COMM chunk: numChannels, numSampleFrames, sampleSize, sampleRate
CommChunk(numChannels, numFrames, bitDepth, rate) ==
    Chunk(COMM, <<0, numChannels>> \o Uint32Bytes(numFrames) \o <<0, bitDepth>>
                   \o Extended(rate), FALSE)

\* the SSND chunk: offset, blockSize, then the samples
SsndChunk(samples) == Chunk(SSND, Fill(8, 0) \o samples, FALSE)

\* an AIFF file: an optional chunk of preSize payload bytes (none when
\* preSize < 0), then COMM and SSND in either order
AiffFile(type, preSize, commFirst, numChannels, bitDepth) ==
    LET pre == IF preSize < 0 THEN <<>> ELSE Chunk(NAME, Fill(preSize, 65), FALSE)
        samples == Fill(numChannels * (bitDepth \div 8), 64)
        comm == CommChunk(numChannels, 1, bitDepth, 44100)
        body == pre \o (IF commFirst THEN comm \o SsndChunk(samples)
                                     ELSE SsndChunk(samples) \o comm)
    IN FORM \o Uint32Bytes(4 + Len(body)) \o type \o body

\* the files behind the track: AIFF files, an AIFF-C file, a WAV file and an
\* AIFF file that has no COMM chunk
HeaderFiles ==
    {AiffFile(AIFF, preSize, commFirst, f[1], f[2]) :
        preSize \in {0 - 1, 1, 2}, commFirst \in BOOLEAN, f \in {<<1, 8>>, <<2, 16>>}}
      \cup {AiffFile(AIFC, 0 - 1, TRUE, 1, 8),
            Container("WAV", 0 - 1, MaxData, FALSE),
            Container("AIFF", 1, MaxData, FALSE)}

InitHeader ==
    /\ scope = "header"
    /\ variant = 2
    /\ EngineIdle
    /\ DiffIdle
    /\ input \in {[fn |-> "process", file |-> f] : f \in HeaderFiles}
    /\ output = NoCall

\* one call this.process(receivedChunks, size, isFinal) of a session, on the
\* first `size` bytes of the file; an exception ends play() and the calls
Process(size) ==
    /\ input.fn = "process"
    /\ size \in 0..Len(input.file)
    /\ \/ output = NoCall
       \/ /\ output.fn = "process"
          /\ output.ret # "throw"
          /\ output.calls < MaxCalls
          /\ size > output.size
    /\ LET parser == IF output = NoCall THEN NewParser ELSE output.parser
           r == process(parser, SubSeq(input.file, 1, size))
       IN output' = [fn |-> "process", parser |-> r.parser, ret |-> r.ret,
                     from |-> r.from, to |-> r.to, frames |-> r.frames,
                     size |-> size, before |-> parser.headerParsed,
                     calls |-> IF output = NoCall THEN 1 ELSE output.calls + 1]
    /\ last' = Evt("process", 0, 0)
    /\ UNCHANGED <<scope, engineVars, diffVars, input>>

NextHeader == \E size \in 0..Len(input.file) : Process(size)

SpecHeader == InitHeader /\ [][NextHeader]_vars

\* ---- the accumulation of chunks and the flattening for a decode ----
MaxStream == 3
MaxChunkLen == 2

\* TypedArray.prototype.set: the bytes of c written into flat from off on
Set(flat, c, off) ==
    [k \in 1..Len(flat) |->
        IF k > off /\ k <= off + Len(c) THEN c[k - off] ELSE flat[k]]

\* for (let c of chunks) { flat.set(c, off); off += c.length; }
RECURSIVE SetAll(_, _, _, _)
SetAll(flat, chunks, i, off) ==
    IF i > Len(chunks) THEN flat
    ELSE SetAll(Set(flat, chunks[i], off), chunks, i + 1, off + Len(chunks[i]))

\* a flattening that never advances off
flatten_AtStart(chunks, size) ==
    LET RECURSIVE Over(_, _)
        Over(flat, i) == IF i > Len(chunks) THEN flat
                         ELSE Over(Set(flat, chunks[i], 0), i + 1)
    IN Over(Fill(size, 0), 1)

\* const flat = new Uint8Array(size), then the loop
flatten(chunks, size) == SetAll(Fill(size, 0), chunks, 1, 0)

RECURSIVE Seqs(_, _)
Seqs(S, n) ==
    IF n = 0 THEN {<<>>}
    ELSE Seqs(S, n - 1) \cup
         {Append(s, x) : s \in {t \in Seqs(S, n - 1) : Len(t) = n - 1}, x \in S}

\* the chunks the reader will deliver, none of them empty
Streams == Seqs({Fill(n, b) : n \in 1..MaxChunkLen, b \in {1, 2}}, MaxStream)

\* play() before its first read: let chunks = []; let totalBytes = 0
NewSession == [fn |-> "play", chunks |-> <<>>, totalBytes |-> 0,
               flat |-> <<>>, size |-> 0, attempts |-> 0, done |-> FALSE]

Session == IF output = NoCall THEN NewSession ELSE output

InitAccumulate ==
    /\ scope = "accumulate"
    /\ variant = 1
    /\ EngineIdle
    /\ DiffIdle
    /\ input \in {[fn |-> "stream", chunks |-> s] : s \in Streams}
    /\ output = NoCall

\* process(chunks, size, isFinal) up to the decoder: the copy handed to it
Flattened(S) ==
    [S EXCEPT !.flat = flatten(S.chunks, S.totalBytes), !.size = S.totalBytes,
              !.attempts = @ + 1]

\* reader.read() resolves with the next chunk: chunks.push(value);
\* totalBytes += value.length; then process(...) if the cadence test says so
ReadValue(trigger) ==
    /\ input.fn = "stream"
    /\ ~Session.done
    /\ Len(Session.chunks) < Len(input.chunks)
    /\ LET value == input.chunks[Len(Session.chunks) + 1]
           S == [Session EXCEPT !.chunks = Append(@, value),
                                !.totalBytes = @ + Len(value)]
       IN output' = IF trigger THEN Flattened(S) ELSE S
    /\ last' = Evt("chunk", 0, 0)
    /\ UNCHANGED <<scope, engineVars, diffVars, input>>

\* reader.read() resolves with done: the final process(...) if one is due
ReadEnd(final) ==
    /\ input.fn = "stream"
    /\ ~Session.done
    /\ Len(Session.chunks) = Len(input.chunks)
    /\ output' = [(IF final THEN Flattened(Session) ELSE Session) EXCEPT !.done = TRUE]
    /\ last' = Evt("done", 0, 0)
    /\ UNCHANGED <<scope, engineVars, diffVars, input>>

NextAccumulate ==
    \/ \E trigger \in BOOLEAN : ReadValue(trigger)
    \/ \E final \in BOOLEAN : ReadEnd(final)

SpecAccumulate == InitAccumulate /\ [][NextAccumulate]_vars

\* ---- StreamPlayer.process on a prefix ----
\* every prefix of the files of PatchInputs, the empty one included
ProcessInputs ==
    UNION {{[fn |-> "streamProcess", fmt |-> fmt, o |-> SampleChunkOffset(preSize),
             view |-> SubSeq(Container(fmt, preSize, MaxData, trailing), 1, L)] :
               L \in 0..Len(Container(fmt, preSize, MaxData, trailing))} :
              fmt \in {"AIFF", "WAV"}, preSize \in (0 - 1)..MaxPre,
              trailing \in BOOLEAN}

\* StreamPlayer.process of a non-stopped player up to the call of the
\* decoder: the patch of the copy unless isFinal, then decodeAudioData. A
\* RangeError of setUint32(4, ...) on a copy shorter than 8 bytes leaves
\* process before the try block.
streamProcess(type, flat, isFinal) ==
    IF isFinal
    THEN [ret |-> "decodeAudioData", view |-> flat]
    ELSE IF Len(flat) < 8
    THEN [ret |-> "throw", view |-> flat]
    ELSE [ret |-> "decodeAudioData",
          view |-> IF type = "AIFF" THEN AiffHeaderPatcher(flat, Len(flat))
                   ELSE WavHeaderPatcher(flat, Len(flat))]

InitProcess ==
    /\ scope = "process"
    /\ variant = 1
    /\ EngineIdle
    /\ DiffIdle
    /\ input \in ProcessInputs
    /\ output = NoCall

\* await this.process(chunks, totalBytes, isFinal)
StreamProcess(isFinal) ==
    /\ input.fn = "streamProcess"
    /\ output = NoCall
    /\ LET r == streamProcess(input.fmt, input.view, isFinal)
       IN output' = [fn |-> "streamProcess", isFinal |-> isFinal,
                     ret |-> r.ret, view |-> r.view]
    /\ last' = Evt("process", 0, 0)
    /\ UNCHANGED <<scope, engineVars, diffVars, input>>

NextProcess == \E isFinal \in BOOLEAN : StreamProcess(isFinal)

SpecProcess == InitProcess /\ [][NextProcess]_vars

\* ---- the chunks and the copy of process as typed arrays in memory ----
\* M is the memory: the byte contents of every Uint8Array alive, by creation
\* order; chunks hold indexes of M.

\* an allocation that hands back the array of the first chunk
Allocate_FirstChunk(M, size) == [mem |-> M, id |-> 1]

\* new Uint8Array(size)
Allocate(M, size) == [mem |-> Append(M, Fill(size, 0)), id |-> Len(M) + 1]

\* StreamPlayer.process of a non-stopped player on the arrays `chunks`: the
\* copy is filled, patched through new DataView(flat.buffer) unless isFinal,
\* and flat.buffer.slice(0) goes to the decoder. The copy is garbage when
\* process returns: mem keeps the arrays that were alive before the call.
processBuffers(M, chunks, size, type, isFinal) ==
    LET a == Allocate(M, size)
        contents == [i \in 1..Len(chunks) |-> a.mem[chunks[i]]]
        M1 == [a.mem EXCEPT ![a.id] = SetAll(@, contents, 1, 0)]
        r == streamProcess(type, M1[a.id], isFinal)
        M2 == IF r.ret = "throw" THEN M1 ELSE [M1 EXCEPT ![a.id] = r.view]
    IN [mem |-> SubSeq(M2, 1, Len(M)), ret |-> r.ret, flat |-> M2[a.id]]

\* the stream: a file of ProcessInputs delivered in two chunks, every cut
BufferInputs ==
    UNION {{[fn |-> "buffers", fmt |-> fmt, o |-> SampleChunkOffset(preSize),
             file |-> Container(fmt, preSize, MaxData, trailing), cut |-> c] :
               c \in 1..(Len(Container(fmt, preSize, MaxData, trailing)) - 1)} :
              fmt \in {"AIFF", "WAV"}, preSize \in (0 - 1)..MaxPre,
              trailing \in BOOLEAN}

\* the value the n-th read resolves with
Delivered(n) ==
    IF n = 1 THEN SubSeq(input.file, 1, input.cut)
    ELSE SubSeq(input.file, input.cut + 1, Len(input.file))

\* play() before its first read
NewBuffers == [fn |-> "play", mem |-> <<>>, chunks |-> <<>>, totalBytes |-> 0,
               ret |-> "none", isFinal |-> FALSE, flat |-> <<>>, done |-> FALSE]

Buffers == IF output = NoCall THEN NewBuffers ELSE output

InitBuffers ==
    /\ scope = "buffers"
    /\ variant = 1
    /\ EngineIdle
    /\ DiffIdle
    /\ input \in BufferInputs
    /\ output = NoCall

\* await this.process(chunks, totalBytes, isFinal) in play(): an exception
\* that leaves process ends play() in its catch block
Processed(B, isFinal) ==
    LET r == processBuffers(B.mem, B.chunks, B.totalBytes, input.fmt, isFinal)
    IN [B EXCEPT !.mem = r.mem, !.ret = r.ret, !.flat = r.flat,
                 !.isFinal = isFinal, !.done = (r.ret = "throw") \/ isFinal]

\* reader.read() resolves with a chunk: chunks.push(value), then
\* process(chunks, totalBytes, false) if the cadence test says so
BufferedRead(trigger) ==
    /\ input.fn = "buffers"
    /\ ~Buffers.done
    /\ Len(Buffers.chunks) < 2
    /\ LET value == Delivered(Len(Buffers.chunks) + 1)
           B == [Buffers EXCEPT !.mem = Append(@, value),
                                !.chunks = Append(@, Len(Buffers.mem) + 1),
                                !.totalBytes = @ + Len(value),
                                !.ret = "none", !.flat = <<>>]
       IN output' = IF trigger THEN Processed(B, FALSE) ELSE B
    /\ last' = Evt("chunk", 0, 0)
    /\ UNCHANGED <<scope, engineVars, diffVars, input>>

\* reader.read() resolves with done: process(chunks, totalBytes, true) if due
BufferedEnd(final) ==
    /\ input.fn = "buffers"
    /\ ~Buffers.done
    /\ Len(Buffers.chunks) = 2
    /\ output' = IF final THEN Processed(Buffers, TRUE)
                 ELSE [Buffers EXCEPT !.done = TRUE, !.ret = "none", !.flat = <<>>]
    /\ last' = Evt("done", 0, 0)
    /\ UNCHANGED <<scope, engineVars, diffVars, input>>

NextBuffers ==
    \/ \E trigger \in BOOLEAN : BufferedRead(trigger)
    \/ \E final \in BOOLEAN : BufferedEnd(final)

SpecBuffers == InitBuffers /\ [][NextBuffers]_vars

\* ---- the chunk scans, one iteration at a time ----
MaxPayload == 18

\* An offset of a scan is a JavaScript number: offset + 8 + chunkSize does not
\* wrap. It is kept as <<hi, lo>>, standing for hi * 65536 + lo.
Wide(n) == <<n \div 65536, n % 65536>>
Below(w, n) == w[1] = 0 /\ w[2] < n

\* the four bytes of a size field, most significant first
SizeBytes(view, offset, littleEndian) ==
    LET f == SubSeq(view, offset + 5, offset + 8)
    IN IF littleEndian THEN Reverse4(f) ELSE f

\* an advance by the chunk's size alone
Advance_SizeOnly(offset, size, pad) ==
    LET lo == 256 * size[3] + size[4]
        raw == offset + lo + (IF pad THEN lo % 2 ELSE 0)
    IN <<256 * size[1] + size[2] + raw \div 65536, raw % 65536>>

\* offset += 8 + chunkSize; and, in parseHeader, if (chunkSize % 2 !== 0) offset++
Advance(offset, size, pad) ==
    LET lo == 256 * size[3] + size[4]
        raw == offset + 8 + lo + (IF pad THEN lo % 2 ELSE 0)
    IN <<256 * size[1] + size[2] + raw \div 65536, raw % 65536>>

\* what one evaluation of a loop test and body leaves: from..to are the
\* offsets of the view it read or wrote (none when to < from), advanced
\* tells that it reached `offset +=`
Iteration(pc, offset, from, to, advanced, comm, ssnd) ==
    [pc |-> pc, offset |-> offset, from |-> from, to |-> to,
     advanced |-> advanced, foundComm |-> comm, foundSsnd |-> ssnd]

\* the loop of AiffHeaderPatcher.patch (id SSND, big-endian) and of
\* WavHeaderPatcher.patch (id data, little-endian): test, then body
patchIteration(view, offset, id, littleEndian) ==
    IF ~Below(offset, Len(view) - 8)
    THEN Iteration("done", offset, 0, 0 - 1, FALSE, FALSE, FALSE)
    ELSE LET o == offset[2] IN
         IF getAscii(view, o) = id
         THEN Iteration("done", offset, o, o + 7, FALSE, FALSE, FALSE)
         ELSE Iteration("scan", Advance(o, SizeBytes(view, o, littleEndian), FALSE),
                        o, o + 7, TRUE, FALSE, FALSE)

\* the loop of AiffParser.parseHeader: test, then body
headerIteration(view, offset, foundComm, foundSsnd) ==
    IF ~Below(offset, Len(view))
    THEN Iteration("done", offset, 0, 0 - 1, FALSE, foundComm, foundSsnd)
    ELSE LET o == offset[2]
             chunkId == parserAscii(view, o)
             comm == foundComm \/ chunkId = COMM
             ssnd == foundSsnd \/ chunkId = SSND
         IN IF o + 8 > Len(view)
            THEN Iteration("done", offset, 0, 0 - 1, FALSE, foundComm, foundSsnd)
            ELSE IF chunkId = COMM /\ o + 26 > Len(view)
            THEN Iteration("done", offset, o, o + 7, FALSE, foundComm, foundSsnd)
            ELSE Iteration(IF comm /\ ssnd THEN "done" ELSE "scan",
                           Advance(o, SizeBytes(view, o, FALSE), TRUE),
                           o, IF chunkId = COMM THEN o + 25 ELSE o + 7,
                           TRUE, comm, ssnd)

\* the statements before the loop: "throw" is the RangeError of
\* setUint32(4, ...) or of getAscii on a view that is too short
scanEntry(who, view) ==
    IF who = "parseHeader"
    THEN (IF Len(view) < 4 THEN "throw"
          ELSE IF parserAscii(view, 0) # FORM THEN "done"
          ELSE IF Len(view) < 12 THEN "throw"
          ELSE IF parserAscii(view, 8) # AIFF THEN "done"
          ELSE "scan")
    ELSE (IF Len(view) < 8 THEN "throw" ELSE "scan")

\* size fields as they may stand in a file, most significant byte first
SizeFields == {<<0, 0, 0, 0>>, <<0, 0, 0, 1>>, <<0, 0, 0, 2>>, <<255, 255, 255, 255>>}

\* byte sequences that begin like a container and go on with two chunk
\* headers of any id and any declared size, whatever payload follows them
ScanFiles(fmt) ==
    LET le == fmt = "WAV"
        hdr == IF le THEN RIFF \o <<0, 0, 0, 0>> \o WAVE
                     ELSE FORM \o <<0, 0, 0, 0>> \o AIFF
        ids == {IF le THEN data ELSE SSND, COMM, IF le THEN LIST ELSE NAME}
        field(s) == IF le THEN Reverse4(s) ELSE s
    IN {hdr \o id1 \o field(s1) \o Fill(n1, 1) \o id2 \o field(<<0, 0, 0, 0>>) \o Fill(n2, 1) :
          id1 \in ids, s1 \in SizeFields, n1 \in {0, 1, MaxPayload},
          id2 \in ids \ {IF le THEN LIST ELSE NAME}, n2 \in {0, MaxPayload}}

Scanners(fmt) ==
    IF fmt = "WAV" THEN {"WavHeaderPatcher"} ELSE {"AiffHeaderPatcher", "parseHeader"}

ScanInputs ==
    UNION {{[fn |-> "scan", who |-> who, view |-> SubSeq(f, 1, L)] :
               who \in Scanners(fmt), L \in 0..Len(f)} :
           fmt \in {"AIFF", "WAV"}, f \in ScanFiles("AIFF") \cup ScanFiles("WAV")}

InitScan ==
    /\ scope = "scan"
    /\ variant = 1
    /\ EngineIdle
    /\ DiffIdle
    /\ input \in ScanInputs
    /\ output = NoCall

\* the call, up to the first test of the loop
ScanEnter ==
    /\ input.fn = "scan"
    /\ output = NoCall
    /\ output' = [fn |-> "scan", advances |-> 0,
                  it |-> Iteration(scanEntry(input.who, input.view), Wide(12),
                                   0, 0 - 1, FALSE, FALSE, FALSE)]
    /\ last' = Evt("enter", 0, 0)
    /\ UNCHANGED <<scope, engineVars, diffVars, input>>

\* one test of the loop and, if it passes, one pass of its body
ScanStep ==
    /\ input.fn = "scan"
    /\ output # NoCall
    /\ output.it.pc = "scan"
    /\ LET it == CASE input.who = "AiffHeaderPatcher" ->
                         patchIteration(input.view, output.it.offset, SSND, FALSE)
                   [] input.who = "WavHeaderPatcher" ->
                         patchIteration(input.view, output.it.offset, data, TRUE)
                   [] OTHER ->
                         headerIteration(input.view, output.it.offset,
                                         output.it.foundComm, output.it.foundSsnd)
       IN output' = [fn |-> "scan", it |-> it,
                     advances |-> output.advances + (IF it.advanced THEN 1 ELSE 0)]
    /\ last' = Evt("iteration", 0, 0)
    /\ UNCHANGED <<scope, engineVars, diffVars, input>>

NextScan == ScanEnter \/ ScanStep

\* a scan that can go on does go on
SpecScan == InitScan /\ [][NextScan]_vars /\ WF_vars(ScanStep)

(* ----------------------------- properties ----------------------------- *)

PlayingSources(p) ==
    {s \in SourceIds : sources[s].owner = p /\ sources[s].state = "playing"}

\* the step is the handler `op` of player p
Ran(op, p) == last'.op = op /\ last'.p = p

(* C1: at every point of any sequence of play, heartbeat, seek, natural    *)
(* source end and stop, a player has at most one buffer source that was    *)
(* started and has neither been stopped nor ended.                         *)
C1_AtMostOneActiveSource ==
    \A p \in PlayerIds : Cardinality(PlayingSources(p)) <= 1

\* a seek replaced a source that was playing: the old one is stopped, its ended
\* event still queued, and the new one plays
C1_Witness ==
    /\ last.op = "seek"
    /\ last.p \in PlayerIds
    /\ Cardinality(PlayingSources(last.p)) = 1
    /\ \E s \in SourceIds : /\ sources[s].owner = last.p
                             /\ sources[s].state = "stopped"
                             /\ sources[s].eventPending

(* C2: once stop() has returned, a decode that completes later is          *)
(* discarded: fullAudioBuffer stays null and estimatedDuration keeps the   *)
(* value stop() left.                                                      *)
C2_DecodeAfterStopDiscarded ==
    [][\A p \in PlayerIds :
         players[p].isStopped =>
           /\ players'[p].fullAudioBuffer = Null
           /\ players'[p].estimatedDuration = players[p].estimatedDuration]_vars

(* C3: once stop() has been called on a player, its play() loop never      *)
(* invokes the progress callback again.                                    *)
C3_NoProgressAfterStop ==
    (last.progress /\ last.p \in PlayerIds) => ~players[last.p].isStopped

(* C4: in the differential player, after resetPlayer() or a superseding    *)
(* playChunkedAudio, no source node built from the previous track's bytes  *)
(* is started on the new track's context, added to sourceNodes, or         *)
(* advances nextStartTime: every node is on the context its own            *)
(* playChunkedAudio call created (the t-th call creates the t-th context). *)
C4_NoOldTrackAudioScheduled ==
    \A n \in NodeIds : nodes[n].ctx = nodes[n].track

(* C5: at most one player is non-stopped and at most one audio context is  *)
(* open; every player but the current one is stopped, its transfer         *)
(* aborted, its sources stopped, its timer cleared, its context closed.    *)
C5_OnePlayerOneContext ==
    /\ Cardinality({p \in PlayerIds : ~players[p].isStopped}) <= 1
    /\ Cardinality({p \in PlayerIds : players[p].ctxState = "open"}) <= 1
    /\ \A p \in PlayerIds :
         p # currentPlayer =>
           /\ players[p].isStopped
           /\ players[p].signalAborted
           /\ PlayingSources(p) = {}
           /\ ~players[p].monitorOn
           /\ players[p].ctxState = "closed"

\* a track was selected while the previous one was playing a source
C5_Witness ==
    /\ Len(players) >= 2
    /\ last.op = "play"
    /\ ~players[Len(players)].isStopped
    /\ players[Len(players)].ctxState = "open"
    /\ \E s \in SourceIds : sources[s].owner = 1 /\ sources[s].state = "stopped"

\* the precondition of the heartbeat's restart
Stalled(p) ==
    /\ ~players[p].isStopped
    /\ players[p].fullAudioBuffer # Null
    /\ players[p].activeSource = Null
    /\ players[p].playedOffset < players[p].fullAudioBuffer - TOLERANCE

(* C6: for a non-stopped player with a decoded buffer, no active source    *)
(* and playedOffset < duration - 0.2, one heartbeat leaves an active       *)
(* source started at offset playedOffset of the current buffer, and        *)
(* playedOffset unchanged.                                                 *)
C6_HeartbeatRestarts ==
    [][\A p \in PlayerIds :
         (Stalled(p) /\ Ran("tick", p)) =>
           /\ players'[p].activeSource # Null
           /\ sources'[players'[p].activeSource].owner = p
           /\ sources'[players'[p].activeSource].state = "playing"
           /\ sources'[players'[p].activeSource].offset = players[p].playedOffset
           /\ sources'[players'[p].activeSource].buffer = players[p].fullAudioBuffer
           /\ players'[p].fullAudioBuffer = players[p].fullAudioBuffer
           /\ players'[p].playedOffset = players[p].playedOffset]_vars

\* a heartbeat restarted playback in the middle of the buffer
C6_Witness ==
    /\ last.op = "tick" /\ last.arg = 1
    /\ players[last.p].playedOffset > 0
    /\ players[last.p].activeSource # Null
    /\ sources[players[last.p].activeSource].state = "playing"

(* C7: when downloading has finished, no source is active and playedOffset *)
(* is within 0.2 s of the buffer's duration, a heartbeat starts no source  *)
(* and changes no playback state.                                          *)
C7_EndOfTrackNotRestarted ==
    [][\A p \in PlayerIds :
         ( /\ ~players[p].isDownloading
           /\ players[p].fullAudioBuffer # Null
           /\ players[p].activeSource = Null
           /\ players[p].playedOffset >= players[p].fullAudioBuffer - TOLERANCE
           /\ Ran("tick", p) ) =>
           (players' = players /\ sources' = sources)]_vars

\* a heartbeat at the end of a finished track, the position short of the
\* duration but within the tolerance
C7_Witness ==
    /\ last.op = "tick" /\ last.arg = 0
    /\ ~players[last.p].isStopped
    /\ ~players[last.p].isDownloading
    /\ players[last.p].fullAudioBuffer # Null
    /\ players[last.p].activeSource = Null
    /\ players[last.p].playedOffset > 0
    /\ players[last.p].playedOffset < players[last.p].fullAudioBuffer
    /\ players[last.p].playedOffset >= players[last.p].fullAudioBuffer - TOLERANCE

(* C8: while a player is not stopped, playedOffset never decreases across  *)
(* heartbeats, restarts, natural source ends and newly decoded buffers;    *)
(* only seek() may lower it.                                               *)
C8_PlayedOffsetMonotone ==
    [][\A p \in PlayerIds :
         (~players[p].isStopped /\ ~players'[p].isStopped /\ ~Ran("seek", p)) =>
           players'[p].playedOffset >= players[p].playedOffset]_vars

\* a source restarted in the middle of the buffer has ended naturally and
\* the position advanced by the time it played
C8_Witness ==
    /\ last.op = "ended"
    /\ ~players[last.p].isStopped
    /\ players[last.p].activeSource = Null
    /\ players[last.p].startTime > 0
    /\ players[last.p].playedOffset > players[last.p].now - players[last.p].startTime
    /\ players[last.p].now > players[last.p].startTime

\* seek(t) on player p takes effect in this step: p plays and has decoded audio
Seeks(p) ==
    /\ Ran("seek", p)
    /\ ~players[p].isStopped
    /\ players[p].fullAudioBuffer # Null

\* after the step, p's active source was started at offset t and playedOffset is t
StartedAt(p, t) ==
    /\ players'[p].activeSource # Null
    /\ sources'[players'[p].activeSource].owner = p
    /\ sources'[players'[p].activeSource].offset = t
    /\ sources'[players'[p].activeSource].buffer = players[p].fullAudioBuffer
    /\ players'[p].playedOffset = t

(* C9 as stated: for every decoded duration D, seek(D + 10 s) starts       *)
(* playback at offset D - 0.1 s and a negative seek starts it at 0, with   *)
(* playedOffset equal to that offset afterwards.                           *)
C9_SeekClampsAsStated ==
    [][\A p \in PlayerIds :
         Seeks(p) =>
           /\ last'.arg = players[p].fullAudioBuffer + TEN_SECONDS
                 => StartedAt(p, players[p].fullAudioBuffer - SEEK_MARGIN)
           /\ last'.arg < 0 => StartedAt(p, 0)]_vars

(* C9 amended: for a decoded duration D >= 0.1 s, seek(D + 10 s) starts    *)
(* playback at offset D - 0.1 s; for D < 0.1 s it starts at offset 0; a    *)
(* negative seek starts at offset 0; playedOffset equals that offset.      *)
C9_SeekClamps ==
    [][\A p \in PlayerIds :
         Seeks(p) =>
           /\ ( /\ last'.arg = players[p].fullAudioBuffer + TEN_SECONDS
                /\ players[p].fullAudioBuffer >= SEEK_MARGIN )
                 => StartedAt(p, players[p].fullAudioBuffer - SEEK_MARGIN)
           /\ ( /\ last'.arg = players[p].fullAudioBuffer + TEN_SECONDS
                /\ players[p].fullAudioBuffer < SEEK_MARGIN )
                 => StartedAt(p, 0)
           /\ last'.arg < 0 => StartedAt(p, 0)]_vars

\* a seek 10 s past the end of a buffer of at least 0.1 s started a source
\* 0.1 s before the end
C9_Witness ==
    /\ last.op = "seek"
    /\ ~players[last.p].isStopped
    /\ players[last.p].fullAudioBuffer >= SEEK_MARGIN
    /\ last.arg = players[last.p].fullAudioBuffer + TEN_SECONDS
    /\ players[last.p].activeSource # Null
    /\ players[last.p].playedOffset = players[last.p].fullAudioBuffer - SEEK_MARGIN
    /\ sources[players[last.p].activeSource].offset = players[last.p].playedOffset

(* C10: seek(t) before any audio is decoded, or on a stopped player, is a  *)
(* no-op: no field of any player changes and no source is created.         *)
C10_SeekNoOp ==
    [][\A p \in PlayerIds :
         (Ran("seek", p) /\ (players[p].isStopped \/ players[p].fullAudioBuffer = Null))
           => (players' = players /\ sources' = sources
               /\ currentPlayer' = currentPlayer)]_vars

\* a seek on a playing track whose first decode has not completed
C10_Witness ==
    /\ last.op = "seek"
    /\ ~players[last.p].isStopped
    /\ players[last.p].fullAudioBuffer = Null
    /\ players[last.p].pc = "decoding"

\* the loop of track t receives a decoded buffer longer than what it has
\* scheduled, while its session's context is the current one
DecodesMore(t) ==
    /\ Ran("decoded", t)
    /\ audioCtx # Null
    /\ last'.arg > tracks[t].lastDecodedSample

\* the step appended one node to nodes
Scheduled == Len(nodes') = Len(nodes) + 1
NewNode == nodes'[Len(nodes')]

(* C11: in playChunkedAudio, each successful decode with a frame count N    *)
(* above the previous one P schedules exactly the slice [P, N) and moves    *)
(* the pointer to N: for N1 < N2 < N3 the slices are [0,N1), [N1,N2),       *)
(* [N2,N3), every frame below N3 once.                                      *)
C11_SlicesAreTheNewFrames ==
    [][\A t \in TrackIds :
         DecodesMore(t) =>
           /\ Scheduled
           /\ NewNode.track = t
           /\ NewNode.from = tracks[t].lastDecodedSample
           /\ NewNode.to = last'.arg
           /\ tracks'[t].lastDecodedSample = last'.arg]_vars

\* three decodes of 1, 2 and 3 frames have scheduled [0,1), [1,2), [2,3)
C11_Witness ==
    /\ last.op = "decoded"
    /\ Len(nodes) = 3
    /\ \A n \in 1..3 : /\ nodes[n].state = "scheduled"
                        /\ nodes[n].from = n - 1
                        /\ nodes[n].to = n
    /\ tracks[1].lastDecodedSample = 3

\* the nodes that can still sound
Live == {n \in NodeIds : nodes[n].state = "scheduled"}
EndOf(n) == nodes[n].at + (nodes[n].to - nodes[n].from)

(* C12: scheduleNewSegment starts each unit at max(currentTime,             *)
(* nextStartTime) and sets nextStartTime to that start plus the unit's      *)
(* duration; within a session the scheduled units never overlap,            *)
(* nextStartTime never decreases, and a unit scheduled before the clock     *)
(* has passed nextStartTime starts exactly where the previous one ends.     *)
C12_UnitsInSequence ==
    /\ [](\A m, n \in Live :
            (m < n /\ nodes[m].ctx = nodes[n].ctx) => EndOf(m) <= nodes[n].at)
    /\ [][/\ Scheduled =>
              /\ NewNode.at = Max(contexts[audioCtx].currentTime, nextStartTime)
              /\ nextStartTime' = NewNode.at + (NewNode.to - NewNode.from)
              /\ contexts[audioCtx].currentTime <= nextStartTime
                    => NewNode.at = nextStartTime
          /\ ~Ran("playChunkedAudio", Len(tracks'))
                => nextStartTime' >= nextStartTime]_vars

\* a second unit was scheduled back to back with the first, which still plays
C12_Witness ==
    /\ last.op = "decoded"
    /\ Len(nodes) = 2
    /\ Live = {1, 2}
    /\ nodes[1].at = 1
    /\ nodes[2].at = EndOf(1)
    /\ contexts[1].currentTime = 2
    /\ nextStartTime = EndOf(2)

(* C13: no error raised while patching or decoding a prefix terminates the  *)
(* download loop: after a chunk was handled by a player that is not         *)
(* stopped, failure inside process or not, its loop awaits the next chunk   *)
(* or the decoder, and after a failed decode it reads on or, at the end of  *)
(* the stream, finishes.                                                    *)
C13_ProcessErrorsContained ==
    [][\A p \in PlayerIds :
         /\ (Ran("chunk", p) /\ ~players[p].isStopped)
               => players'[p].pc \in {"reading", "decoding"}
         /\ Ran("undecoded", p)
               => players'[p].pc \in {"reading", "finished"}]_vars

\* a rejected decode changes nothing of p but the position of its loop
RejectLeavesPlayback(p) ==
    /\ players'[p].fullAudioBuffer = players[p].fullAudioBuffer
    /\ players'[p].estimatedDuration = players[p].estimatedDuration
    /\ players'[p].activeSource = players[p].activeSource
    /\ players'[p].playedOffset = players[p].playedOffset
    /\ players'[p].startTime = players[p].startTime
    /\ players'[p].isStopped = players[p].isStopped
    /\ sources' = sources
    /\ statusTxt' \in {statusTxt, "Playing"}

(* C14: a decodeAudioData failure inside process is a retry condition:      *)
(* the buffer, the estimate and the playback state keep their values, no    *)
(* error status is reported, and the accumulated bytes are submitted again  *)
(* at the next cadence trigger or at end-of-stream.                         *)
C14_FailedDecodeRetried ==
    [][\A p \in PlayerIds :
         /\ Ran("undecoded", p) => RejectLeavesPlayback(p)
         /\ ( /\ last.op = "undecoded" /\ last.p = p
              /\ ~players[p].isStopped
              /\ Ran("done", p) )
               => players'[p].pc = "finalDecoding"]_vars

\* the labels play() and stopAll() write while nothing has failed
ProgressStatuses == {"Ready", "Stopped", "Buffering", "Parsing AIFF...", "Playing"}

(* C15: when fetch or reader.read rejects with a non-abort error the loop   *)
(* terminates without a retry and the status label receives an error       *)
(* message; an AbortError produces no message.                              *)
C15_TransportFailureReported ==
    [][\A p \in PlayerIds :
         /\ Ran("failed", p) =>
               /\ players'[p].pc = "failed"
               /\ statusTxt' \notin ProgressStatuses
         /\ Ran("aborted", p) => statusTxt' = statusTxt]_vars

(* C16: for a WAV or AIFF prefix of length L that contains the header of    *)
(* the sample-data chunk at offset o, patch(view, L) sets the outer size    *)
(* field at byte 4 to L - 8 and that chunk's size field to L - (o + 8), in  *)
(* the format's endianness.                                                 *)
C16_PatchSetsBothSizes ==
    (input.fn = "patch" /\ output # NoCall) =>
       /\ getUint32(output.view, 4, input.fmt = "WAV") = Len(input.view) - 8
       /\ getUint32(output.view, input.o + 4, input.fmt = "WAV")
             = Len(input.view) - (input.o + 8)

(* C17: parseExtended decodes the 10-byte extended-precision encoding of    *)
(* every standard sample rate to that rate within 1e-6 relative error       *)
(* (44100 from exponent 0x400E and mantissa 0xAC44000000000000).            *)
C17_ExtendedRoundTrip ==
    (input.fn = "parseExtended" /\ output # NoCall /\ input.rate > 0)
       => WithinMillionth(output.value, input.rate)

\* the signed value of the big-endian integer of `width` bytes at 0-based
\* sample index k of the interleaved bytes
RECURSIVE BigEndian(_, _, _)
BigEndian(bytes, from, width) ==
    IF width = 0 THEN 0
    ELSE 256 * BigEndian(bytes, from, width - 1) + bytes[from + width]

Signed(u, width) ==
    IF u >= Pow2(8 * width - 1) THEN u - 2 * Pow2(8 * width - 1) ELSE u

\* a fraction <<n, d>> equals the number a / b
Equals(q, a, b) == q[1] * b = a * q[2]

(* C18: decode maps interleaved big-endian samples to per-channel           *)
(* normalized values: signed 16-bit / 32768, sign-extended 24-bit /         *)
(* 8388608, signed 8-bit / 128 (16-bit 16384 gives 0.5, 8-bit 64 gives 0.5, *)
(* 24-bit 0x800000 gives -1); the sample of channel c in frame i is at      *)
(* index i of plane c.                                                       *)
C18_DecodeEqualsReference ==
    (input.fn = "decode" /\ output # NoCall) =>
       LET width == input.bitDepth \div 8
           channels == input.numChannels
           frames == Len(input.rawBytes) \div (width * channels)
           planes == output.planes
       IN /\ DOMAIN planes = 1..channels
          /\ \A c \in 1..channels :
                /\ DOMAIN planes[c] = 1..frames
                /\ \A i \in 1..frames :
                      LET k == (i - 1) * channels + (c - 1)
                          value == Signed(BigEndian(input.rawBytes, k * width, width), width)
                      IN /\ planes[c][i][2] = Pow2(input.bitDepth - 1)
                         /\ planes[c][i][1] = value
                         /\ (input.bitDepth = 16 /\ value = 16384)
                               => Equals(planes[c][i], 1, 2)
                         /\ (input.bitDepth = 8 /\ value = 64)
                               => Equals(planes[c][i], 1, 2)
                         /\ (input.bitDepth = 24
                               /\ BigEndian(input.rawBytes, k * width, width) = 8388608)
                               => Equals(planes[c][i], 0 - 1, 1)

\* two channels of 24-bit samples: 0x800000 on the left, 0x400000 on the right
C18_Witness ==
    /\ input.fn = "decode"
    /\ input.bitDepth = 24
    /\ input.numChannels = 2
    /\ input.rawBytes = <<128, 0, 0, 64, 0, 0>>
    /\ output # NoCall
    /\ Len(output.planes[1]) = 1
    /\ Equals(output.planes[1][1], 0 - 1, 1)
    /\ Equals(output.planes[2][1], 1, 2)

(* C19: once the stream has completed on a non-stopped player, the final   *)
(* decoded audio (fullAudioBuffer) equals the audio obtained by decoding   *)
(* the complete, unmodified bytes in one step, whatever the chunks were.   *)
C19_IncrementalEqualsFull ==
    \A p \in PlayerIds :
        (players[p].pc = "finished" /\ ~players[p].isStopped)
           => players[p].fullAudioBuffer = Reference

\* comparisons of percentages; two reports of one session share the
\* denominator totalFileBytes
AtMost100(q) == q[1] <= 100 * q[2]
Is100(q) == q[1] = 100 * q[2]
Above(q, r) == q[2] = r[2] /\ q[1] > r[1]

\* the step calls onProgress in a session of p whose Content-Length is the
\* real length of the stream
Reports(p) ==
    /\ last'.progress
    /\ last'.p = p
    /\ players[p].pc \in {"reading", "decoding", "finalDecoding"}
    /\ players[p].totalFileBytes = players[p].fileLen

\* the report before this one in the session, if there was one: the chunk
\* call that followed the last change of totalBytes
Previous(p) == Percent(players[p].totalBytes, players[p].totalFileBytes)

(* C20 as stated: with Content-Length equal to the real length and         *)
(* non-empty chunks, the percentages passed to the progress callback are   *)
(* strictly increasing from call to call, never exceed 100, and the last   *)
(* call of the session reports 100.                                         *)
C20_StrictlyIncreasingTo100 ==
    [][\A p \in PlayerIds :
          /\ Reports(p) =>
                /\ AtMost100(last'.pct)
                /\ players[p].totalBytes > 0 =>
                      \/ Above(last'.pct, Previous(p))
                      \/ /\ Is100(last'.pct)
                         /\ ~Is100(Previous(p))
          /\ (players[p].totalFileBytes = players[p].fileLen
                /\ players[p].pc # "finished" /\ players'[p].pc = "finished")
                => (last'.progress /\ Is100(last'.pct))]_vars

(* C20, amended: the percentages never exceed 100; each chunk call reports *)
(* strictly more than the call before it, and 100 when the chunk completes *)
(* the file; the one call at completion follows that chunk call and        *)
(* repeats 100; a session that reaches completion ends with that call.     *)
C20_IncreasingThenRepeats100 ==
    [][\A p \in PlayerIds :
          /\ Reports(p) =>
                /\ AtMost100(last'.pct)
                /\ IF last'.op = "chunk"
                   THEN /\ players[p].totalBytes > 0
                             => Above(last'.pct, Previous(p))
                        /\ players'[p].totalBytes = players[p].fileLen
                             => Is100(last'.pct)
                   ELSE /\ last'.pct = Hundred
                        /\ Is100(Previous(p))
                        /\ players'[p].pc = "finished"
          /\ (players[p].totalFileBytes = players[p].fileLen
                /\ players[p].pc # "finished" /\ players'[p].pc = "finished")
                => (last'.progress /\ Is100(last'.pct))]_vars

\* the completion call was made after a chunk call that had reported 100
C20_Witness ==
    /\ last.progress
    /\ last.op \in {"done", "decoded", "undecoded"}
    /\ last.pct = Hundred
    /\ players[last.p].pc = "finished"
    /\ players[last.p].totalFileBytes = MaxFileUnits * Unit

\* the percentage of a report that carries no number: undefined, or NaN
Indeterminate == <<0, 0>>

\* the bytes-loaded label after a chunk shows the bytes received so far,
\* the totalBytes that the same call divides by totalFileBytes
BytesLabelTracks(p) ==
    last'.op = "chunk" =>
        /\ last'.pct[1] > players[p].totalBytes * 100
        /\ bytesTxt' = MBLabel(last'.pct[1] \div 100)

(* C21: when the response declares no total length, the percentage handed  *)
(* to the progress callback is the undefined / indeterminate value rather  *)
(* than a number, while the bytes-loaded label still reports the bytes     *)
(* received so far.                                                         *)
C21_IndeterminateProgress ==
    [][\A p \in PlayerIds :
          (/\ last'.progress
           /\ last'.p = p
           /\ players[p].pc \in {"reading", "decoding", "finalDecoding"}
           /\ players[p].totalFileBytes = 0)
             => /\ last'.pct = Indeterminate
                /\ BytesLabelTracks(p)]_vars

\* the fields of the container descriptor held by the parser
Descriptor(parser) ==
    <<parser.numChannels, parser.bitDepth, parser.sampleRate,
      parser.dataOffset, parser.dataSize, parser.frameSize>>

(* C22: once headerParsed is true, numChannels, bitDepth, sampleRate,      *)
(* dataOffset, dataSize and frameSize keep their values across every later *)
(* parseHeader / process call on longer prefixes of the same track.        *)
C22_DescriptorFrozen ==
    [][(output.fn = "process" /\ output.parser.headerParsed /\ output'.fn = "process")
          => /\ output'.parser.headerParsed
             /\ Descriptor(output'.parser) = Descriptor(output.parser)]_vars

\* a second call was made on a longer prefix with the header already parsed
C22_Witness ==
    /\ output.fn = "process"
    /\ output.calls = 2
    /\ output.before
    /\ output.parser.headerParsed
    /\ output.ret = "buffer"

\* the step is one pass of the read loop of p's play() on a chunk, p not stopped
ChunkStep(p) ==
    /\ last'.op = "chunk"
    /\ last'.progress
    /\ last'.p = p
    /\ players[p].pc = "reading"

\* the step ends a decode that a chunk triggered
CadenceDecodeEnds(p) ==
    /\ players[p].pc = "decoding"
    /\ players'[p].pc = "reading"

(* C23: in StreamPlayer.play a decode is triggered after a chunk exactly   *)
(* when the bytes received since the last trigger are at least the current *)
(* threshold: 1 MiB for WAV and AIFF and 256 KiB for the other formats     *)
(* until the first trigger, 1 MiB afterwards; none is triggered below it.  *)
C23_CadenceThreshold ==
    [][\A p \in PlayerIds :
          players[p].kind = "StreamPlayer" =>
             /\ ChunkStep(p) =>
                   LET first == players[p].isFirstProcessing
                       threshold ==
                          IF first /\ players[p].type \notin {"WAV", "AIFF"}
                          THEN 262144 ELSE 1048576
                       newBytes == players'[p].totalBytes - players[p].lastProcessedBytes
                   IN /\ players'[p].pc = "decoding" <=> newBytes >= threshold
                      /\ players'[p].pc \in {"decoding", "reading"}
                      /\ players'[p].lastProcessedBytes = players[p].lastProcessedBytes
                      /\ players'[p].isFirstProcessing = first
             \* lastProcessedBytes is the byte count at the last trigger, and
             \* isFirstProcessing holds until the first trigger
             /\ CadenceDecodeEnds(p) =>
                   /\ players'[p].lastProcessedBytes = players[p].totalBytes
                   /\ ~players'[p].isFirstProcessing
             /\ (players[p].pc = "fetching" /\ players'[p].pc = "reading") =>
                   /\ players'[p].lastProcessedBytes = 0
                   /\ players'[p].isFirstProcessing]_vars

\* a second trigger, under the steady-state threshold, of a format whose
\* initial threshold is 256 KiB
C23_Witness ==
    \E p \in PlayerIds :
        /\ players[p].kind = "StreamPlayer"
        /\ players[p].type = "MP3"
        /\ players[p].pc = "decoding"
        /\ ~players[p].isFirstProcessing
        /\ players[p].lastProcessedBytes = 262144
        /\ players[p].totalBytes - players[p].lastProcessedBytes = 1048576

\* the step is the end of the stream of p's play(), p not stopped
DoneStep(p) ==
    /\ last'.op = "done"
    /\ last'.p = p
    /\ players[p].pc = "reading"
    /\ ~players[p].isStopped

(* C24: on end-of-stream of a non-stopped StreamPlayer / GenericPlayer     *)
(* exactly one further decode attempt is made, over the complete bytes and *)
(* without size patching, if and only if bytes arrived after the last      *)
(* cadence trigger; so when play() finishes every received byte has been   *)
(* included in some decode attempt, also for a file below the threshold.   *)
C24_FinalDecodeIffBytesLeft ==
    [][\A p \in PlayerIds :
          players[p].kind \in {"StreamPlayer", "GenericPlayer"} =>
             /\ DoneStep(p) =>
                   /\ players[p].totalBytes = players[p].fileLen
                   /\ IF players[p].totalBytes > players[p].lastProcessedBytes
                      THEN /\ players'[p].pc = "finalDecoding"
                           /\ ~Patched(players'[p])
                           /\ players'[p].totalBytes = players[p].fileLen
                      ELSE /\ players'[p].pc = "finished"
                           \* the last cadence attempt took every byte
                           /\ players[p].lastProcessedBytes = players[p].fileLen
             \* the one attempt: play() ends when it has returned
             /\ (players[p].pc = "finalDecoding" /\ players'[p].pc # "finalDecoding")
                   => players'[p].pc = "finished"
             /\ players'[p].pc = "finalDecoding"
                   => (players[p].pc = "finalDecoding" \/ DoneStep(p))
             /\ CadenceDecodeEnds(p) =>
                   players'[p].lastProcessedBytes = players[p].totalBytes
             /\ (players[p].pc # "finished" /\ players'[p].pc = "finished")
                   => (players[p].pc = "finalDecoding" \/ DoneStep(p))]_vars

\* the stream of a file smaller than the initial threshold has ended and
\* its only decode attempt is under way
C24_Witness ==
    \E p \in PlayerIds :
        /\ players[p].kind \in {"StreamPlayer", "GenericPlayer"}
        /\ players[p].type = "WAV"
        /\ players[p].pc = "finalDecoding"
        /\ ~players[p].isStopped
        /\ players[p].lastProcessedBytes = 0
        /\ players[p].totalBytes = players[p].fileLen
        /\ players[p].totalBytes < players[p].INITIAL_THRESHOLD

\* the bytes of the first n chunks of the stream, in order
RECURSIVE Concat(_, _)
Concat(chunks, n) == IF n = 0 THEN <<>> ELSE Concat(chunks, n - 1) \o chunks[n]

(* C25: every decode attempt receives the in-order concatenation of all    *)
(* chunks received so far on the track (none dropped, duplicated or        *)
(* reordered); the length of that prefix equals the running received-byte  *)
(* counter, which never decreases during a session.                         *)
C25_DecodeGetsWholePrefix ==
    [][(output'.fn = "play") =>
          /\ output'.chunks = SubSeq(input.chunks, 1, Len(output'.chunks))
          /\ output'.totalBytes = Len(Concat(input.chunks, Len(output'.chunks)))
          /\ output'.totalBytes >= Session.totalBytes
          /\ output'.attempts > Session.attempts =>
                /\ output'.flat = Concat(input.chunks, Len(output'.chunks))
                /\ Len(output'.flat) = output'.totalBytes]_vars

\* the third chunk has arrived and the three chunks were handed to a decode
C25_Witness ==
    /\ output.fn = "play"
    /\ Len(output.chunks) = 3
    /\ output.chunks[1] # output.chunks[2]
    /\ output.attempts >= 2
    /\ output.size = output.totalBytes
    /\ output.flat = output.chunks[1] \o output.chunks[2] \o output.chunks[3]

\* the prefix is of an AIFF file whose SSND chunk follows a chunk of odd
\* size, and it extends past the 8-byte header of the SSND chunk
SsndAfterOddChunk ==
    /\ input.fn = "patch"
    /\ input.fmt = "AIFF"
    /\ input.o > 12
    /\ getUint32(input.view, 16, FALSE) % 2 = 1
    /\ input.o = 12 + 8 + getUint32(input.view, 16, FALSE) + 1
    /\ Len(input.view) > input.o + 8

(* C26: AiffHeaderPatcher.patch respects the pad byte: after a chunk of    *)
(* odd size it advances by 8 + size + 1, so an SSND chunk that follows an  *)
(* odd-sized chunk is found at its true offset and its size is patched.    *)
C26_PatchRespectsPadByte ==
    (SsndAfterOddChunk /\ output # NoCall) =>
        /\ getAscii(output.view, input.o) = SSND
        /\ getUint32(output.view, input.o + 4, FALSE) = Len(input.view) - (input.o + 8)

\* a non-final call on a prefix that ends before the 8-byte header of the
\* sample-data chunk is complete
HeaderNotArrived ==
    /\ input.fn = "streamProcess"
    /\ output # NoCall
    /\ ~output.isFinal
    /\ Len(input.view) < input.o + 8

(* C27: when the chunk scan of a non-final WAV / AIFF prefix ends without  *)
(* finding the header of the sample-data chunk (nothing but the outer size *)
(* was patched), no decode attempt is made for that cadence step:          *)
(* decodeAudioData is not called.                                           *)
C27_NoDecodeWithoutDataHeader ==
    HeaderNotArrived => output.ret # "decodeAudioData"

\* the offset of the first chunk `id` of the complete file, walking the
\* chunks with their pad bytes from `offset` on; -1 if there is none
RECURSIVE FindChunk(_, _, _)
FindChunk(file, id, offset) ==
    IF offset + 8 > Len(file) THEN 0 - 1
    ELSE IF SubSeq(file, offset + 1, offset + 4) = id THEN offset
    ELSE LET size == getUint32(file, offset + 4, FALSE)
         IN FindChunk(file, id, offset + 8 + size + (size % 2))

\* the first `size` bytes of the file carry 'FORM' at 0 and 'AIFF' at 8, the
\* whole COMM chunk (8 + 18 bytes) and the header of the SSND chunk
HeaderSeen(file, size) ==
    LET comm == FindChunk(file, COMM, 12)
        ssnd == FindChunk(file, SSND, 12)
    IN /\ size >= 12
       /\ SubSeq(file, 1, 4) = FORM
       /\ SubSeq(file, 9, 12) = AIFF
       /\ comm >= 0 /\ comm + 26 <= size
       /\ ssnd >= 0 /\ ssnd + 8 <= size

\* a call of process that found the header not parsed yet
FirstParse ==
    /\ input.fn = "process"
    /\ output.fn = "process"
    /\ ~output.before

(* C28: parseHeader returns true and sets headerParsed only when the       *)
(* prefix carries 'FORM' at 0 and 'AIFF' at 8 and both the COMM chunk and  *)
(* the SSND chunk have been seen within the prefix; in every other case it *)
(* returns false, headerParsed stays false, and process decodes nothing    *)
(* and retries on the next, longer prefix.                                  *)
C28_ParsedOnlyWhenBothChunksSeen ==
    (FirstParse /\ ~HeaderSeen(input.file, output.size)) =>
        /\ output.ret = "retry"
        /\ ~output.parser.headerParsed
        /\ output.frames = 0

\* the sources of player p that are playing or would still run its handler
LiveSources(srcs, p) ==
    {s \in SourceIds : srcs[s].owner = p
                        /\ (srcs[s].state = "playing" \/ srcs[s].onended)}

\* on the stopped player p a heartbeat tick, the ended handler, seek and
\* playSourceFrom all return without any effect
Inert(p) ==
    /\ monitorTick(Heap, p) = Heap
    /\ onended(Heap, p) = Heap
    /\ \A t \in SeekTimes(p) \cup {0, players[p].playedOffset} :
          /\ seek(Heap, p, t) = Heap
          /\ playSourceFrom(Heap, p, t) = Heap

(* C29: while a player is stopped, activeSource is null, and no heartbeat  *)
(* tick, pending source-ended notification, seek() or playSourceFrom()     *)
(* call creates or starts a source or changes playedOffset.                 *)
C29_StoppedPlayerInert ==
    /\ [](\A p \in PlayerIds :
             players[p].isStopped =>
                /\ players[p].activeSource = Null
                /\ LiveSources(sources, p) = {}
                /\ Inert(p))
    /\ [][\A p \in PlayerIds :
             (players[p].isStopped /\ players'[p].isStopped) =>
                /\ players'[p].playedOffset = players[p].playedOffset
                /\ players'[p].activeSource = Null
                /\ LiveSources(sources', p) = {}]_vars

\* a stopped player whose decoder resolved after stop() and whose stopped
\* source still has its ended notification queued
C29_Witness ==
    \E p \in PlayerIds :
        /\ players[p].isStopped
        /\ players[p].fullAudioBuffer # Null
        /\ \E s \in SourceIds : sources[s].owner = p /\ sources[s].eventPending
        /\ last.op \in {"seek", "ended", "decoded"}

\* the step dispatches the ended notification of source s
Dispatched(s) ==
    /\ last'.op = "ended"
    /\ sources[s].eventPending
    /\ ~sources'[s].eventPending
    /\ sources[s].owner = last'.p

(* C30: the end notification of a source that was replaced by              *)
(* playSourceFrom never changes playedOffset and never clears              *)
(* activeSource; only the natural end of the currently active source       *)
(* advances playedOffset by the output-clock time elapsed since startTime  *)
(* and sets activeSource to null.                                           *)
C30_ReplacedSourceEndIgnored ==
    [][\A s \in SourceIds :
          Dispatched(s) =>
             LET p == sources[s].owner
                 pl == players[p]
             IN IF pl.activeSource = s /\ ~pl.isStopped
                THEN /\ players'[p].playedOffset
                           = pl.playedOffset + (pl.now - pl.startTime)
                     /\ players'[p].activeSource = Null
                ELSE /\ players'[p].playedOffset = pl.playedOffset
                     /\ players'[p].activeSource = pl.activeSource
                     /\ players'[p].startTime = pl.startTime]_vars

\* the notification of a replaced source was dispatched while the source
\* that replaced it is playing
C30_Witness ==
    /\ last.op = "ended"
    /\ last.p \in PlayerIds
    /\ ~players[last.p].isStopped
    /\ players[last.p].activeSource # Null
    /\ sources[players[last.p].activeSource].state = "playing"

(* ---- C31 ---- *)
\* the final decode of p has just resolved with a buffer longer than the
\* tolerance of the heartbeat, and the stream is finished
FinalDecoded(p) ==
    /\ p \in PlayerIds
    /\ last.op = "decoded" /\ last.p = p /\ last.progress
    /\ players[p].pc = "finished"
    /\ ~players[p].isStopped
    /\ players[p].fullAudioBuffer # Null
    /\ players[p].fullAudioBuffer > TOLERANCE

\* the end of the track: nothing plays and the played offset is within the
\* tolerance of the decoded duration
AtEnd(p) ==
    /\ p \in PlayerIds
    /\ ~players[p].isStopped
    /\ players[p].fullAudioBuffer # Null
    /\ players[p].activeSource = Null
    /\ players[p].playedOffset >= players[p].fullAudioBuffer - TOLERANCE

\* the player was stopped (stop button, another track) or sought
Interfered(p) ==
    \/ last.op \in {"stopAll", "play"}
    \/ last.op = "seek" /\ last.p = p

\* C31: after a successful final decode of a duration above 0.2 s, unless the
\* player is stopped or sought, playback reaches the end of the track (no
\* active source, playedOffset >= duration - 0.2), and at the end of the
\* track a heartbeat tick restarts nothing.
C31_PlaybackReachesEnd ==
    /\ \A p \in 1..MaxPlayers :
          FinalDecoded(p) ~> (AtEnd(p) \/ Interfered(p))
    /\ [][\A p \in PlayerIds :
            (AtEnd(p) /\ players[p].pc = "finished"
               /\ last'.op = "tick" /\ last'.p = p)
            => (AtEnd(p)' /\ last'.arg = 0 /\ sources' = sources)]_vars

\* the end of the track is reached by playing, after the final decode
C31_Witness ==
    \E p \in PlayerIds :
        /\ AtEnd(p)
        /\ players[p].pc = "finished"
        /\ last.op = "ended" /\ last.p = p
        /\ players[p].fullAudioBuffer = MaxDur
        /\ players[p].now >= MaxDur

(* ---- C32 ---- *)
\* play() of p is over: it returned, or its catch block ended it
LoopTerminated(p) == players[p].pc \in {"finished", "returned", "aborted", "failed"}

\* the total a heartbeat tick of p handed to the visualizer is the duration of
\* the decoded buffer
ReportsBufferDuration(p) ==
    (last.op = "tick" /\ last.p = p /\ last.sync.synced)
        => last.sync.total = players[p].fullAudioBuffer

\* C32: once the download loop of a player has terminated (completion, stop()
\* or a transport error), isDownloading is false and a heartbeat tick reports
\* the decoded buffer's duration as the total.
C32_TerminatedNotDownloading ==
    \A p \in PlayerIds :
        LoopTerminated(p) =>
            /\ ~players[p].isDownloading
            /\ ReportsBufferDuration(p)

(* ---- C33 ---- *)
\* the loop of track t is running before and after the step
InSession(t) ==
    /\ t \in TrackIds
    /\ tracks[t].pc \in {"reading", "decoding"}
    /\ tracks'[t].pc \in {"reading", "decoding"}

\* two units of the same call of playChunkedAudio that hold a common frame
Overlap(m, n) ==
    /\ m # n
    /\ nodes[m].track = nodes[n].track
    /\ nodes[m].from < nodes[m].to /\ nodes[n].from < nodes[n].to
    /\ nodes[m].from < nodes[n].to /\ nodes[n].from < nodes[m].to

\* no frame of the stream is in two units still to be played
NoFrameTwice == \A m, n \in NodeIds : ~Overlap(m, n)

\* C33: during a session lastDecodedSample never decreases, whatever frame
\* counts the successful decodes return, and no frame index is scheduled twice.
C33_PointerMonotone ==
    /\ [][\A t \in TrackIds :
            InSession(t) =>
                tracks'[t].lastDecodedSample >= tracks[t].lastDecodedSample]_vars
    /\ []NoFrameTwice

(* ---- C34 ---- *)
\* the bytes received so far, in the order of arrival
Received == SubSeq(input.file, 1, Buffers.totalBytes)

\* the accumulated chunks, read back from memory one after the other
RECURSIVE Joined(_, _, _)
Joined(M, chunks, i) ==
    IF i > Len(chunks) THEN <<>> ELSE M[chunks[i]] \o Joined(M, chunks, i + 1)

\* offsets (from 0) where the copy differs from what was received
Changed == {k \in 0..(Buffers.totalBytes - 1) : Buffers.flat[k + 1] # Received[k + 1]}

\* C34: the accumulated chunks always hold the bytes exactly as received; the
\* copy handed to the decoder by a non-final process differs from them only
\* in bytes 4..7 and in the four size bytes of the sample-data chunk, and the
\* copy of the final process does not differ at all.
C34_PatchLeavesChunks ==
    input.fn = "buffers" =>
        /\ Joined(Buffers.mem, Buffers.chunks, 1) = Received
        /\ Buffers.ret = "decodeAudioData" =>
              /\ Len(Buffers.flat) = Buffers.totalBytes
              /\ Changed \subseteq
                    IF Buffers.isFinal THEN {}
                    ELSE (4..7) \cup ((input.o + 4)..(input.o + 7))

\* a patched decode attempt with both sizes rewritten in the copy
C34_Witness ==
    /\ input.fn = "buffers"
    /\ Len(Buffers.chunks) = 1
    /\ Buffers.ret = "decodeAudioData" /\ ~Buffers.isFinal
    /\ input.cut >= input.o + 8
    /\ \E k \in Changed : k \in 4..7
    /\ \E k \in Changed : k \in (input.o + 4)..(input.o + 7)

(* ---- C35 ---- *)
\* a scan is under way or over
Scanned == input.fn = "scan" /\ output # NoCall

\* w2 is at least 8 above w1
AtLeast8(w1, w2) ==
    \/ w2[1] > w1[1] + 1
    \/ w2[1] = w1[1] /\ w2[2] >= w1[2] + 8
    \/ w2[1] = w1[1] + 1 /\ w2[2] + 65536 >= w1[2] + 8

\* every access of the last iteration was inside the view
Inside == output.it.to < output.it.from
             \/ (0 <= output.it.from /\ output.it.to < Len(input.view))

\* C35: the chunk scans of the two patchers and of parseHeader terminate on
\* every byte sequence and chunk size: an iteration that goes on advances the
\* offset by at least 8, the scan is over at the latest with the first test
\* at or past the end of the prefix, no iteration throws or touches an
\* offset outside the prefix, and every scan ends.
C35_ScansTerminate ==
    /\ [][(Scanned /\ output.it.pc = "scan") =>
            /\ output'.it.pc # "throw"
            /\ output'.it.advanced => AtLeast8(output.it.offset, output'.it.offset)
            /\ ~Below(output.it.offset, Len(input.view)) =>
                  (output'.it.pc = "done" /\ output'.it.to < output'.it.from)]_vars
    /\ [](Scanned =>
            /\ Inside
            /\ output.advances > 0 => 8 * output.advances < Len(input.view) - 4)
    /\ (Scanned /\ output.it.pc = "scan") ~> (Scanned /\ output.it.pc = "done")

\* a scan of three iterations whose last advance leaves the prefix by far
C35_Witness ==
    /\ Scanned
    /\ output.it.pc = "scan"
    /\ output.advances = 3
    /\ output.it.offset[1] > 0
====
